---- MODULE Spec2Model ----
(***************************************************************************)
(* Model of the asynchronous batch validator                               *)
(* (src/src/scripts/4_Api_delito_validador.py) and of the batch            *)
(* consolidator (src/src/scripts/5_lotes_processor.py).                    *)
(*                                                                         *)
(* Spec      : one run of run_validation_async over a case list.           *)
(* SpecRerun : repeated runs over a one-case list.                         *)
(* SpecLoad  : calls of ResultProcessor.load_batch_files over a directory  *)
(*             of batch files.                                             *)
(* SpecParse : ResultProcessor.parse_detailed_predictions, tier by tier,   *)
(*             on a raw response text.                                     *)
(* SpecClassify : ErrorAnalyzer.classify_record                            *)
(*             (src/src/scripts/6_Error_results.py) on one record.         *)
(* SpecPipeline : ResultProcessor.process and ErrorAnalyzer.run_analysis   *)
(*             over a batch directory and a reference file, with new       *)
(*             validation runs in between.                                 *)
(* SpecAnalyze : ErrorAnalyzer.run_analysis on a nested file of any        *)
(*             content.                                                    *)
(* SpecLive  : one run of run_validation_async under the scheduling of the *)
(*             event loop.                                                 *)
(***************************************************************************)
EXTENDS Integers, Sequences, FiniteSets, TLC

(***************************************************************************)
(* Bounds of the model.                                                    *)
(***************************************************************************)
MaxCases == 3          \* longest case list
MaxRuns == 3           \* number of run_validation_async calls (SpecRerun)
MaxLines == 1          \* most lines in one batch file (SpecLoad)
MaxLoads == 2          \* number of load_batch_files calls (SpecLoad)
MaxChunks == 2         \* most fragments in one raw response text
MaxReruns == 1         \* validation runs made after the first consolidation
MaxLiveCases == 2      \* longest case list of the runs checked for liveness

CaseIds == {"A", "B"}
MaxRetriesValues == 0..3        \* config.api.max_retries
MaxConcurrentValues == 1..2     \* max_concurrent
BatchSizes == 1..2              \* batch_size
FileCounts == 0..2              \* files in the batch directory (SpecLoad)
BatchNos == {1, 2, 10}          \* batch ids in file names (SpecLoad)
\* Sampled wall-clock instants, in seconds: 0 and 1 lie in the same minute,
\* 60 in the next one.
Instants == {0, 1, 60}

VARIABLES
    \* ---- configuration and input of the validator
    caseList,        \* data_to_process: sequence of case ids (ids may repeat)
    batch_size,
    max_concurrent,
    max_retries,
    runBudget,       \* how many times the operator calls run_validation_async
    \* ---- environment
    now,             \* wall clock (seconds), as last read by datetime.now()
    lotesDir,        \* lotes_dir: file name -> sequence of lines
    backups,         \* backup_<second> subdirectories: second -> (name -> lines)
    \* ---- run_validation_async
    runNo,           \* number of runs started
    runPc,           \* "idle", "loop", "gather", "returned"
    batchIdx,        \* batch_idx of the for loop
    status,          \* value returned by the last run
    outcome,         \* which return statement produced it
    \* ---- AsyncAPIDelitoValidator
    tasks,           \* case index -> state of its process_single_case coroutine
    semaphore,       \* free permits of self.semaphore
    results_saved,
    \* ---- ResultProcessor
    unified,         \* unified_data returned by the last load_batch_files
    loadPc,          \* "ready", "loaded", "raised"
    loads,           \* number of load_batch_files calls made
    json_decode_errors,
    general_parse_errors,
    skipped_no_id,
    \* ---- parse_detailed_predictions
    raw_response,        \* the text being parsed
    predicted_details,   \* the dict built so far: code -> justification
    parsePc,             \* "idle", "tier1", "tier2", "tier3", "returned", "raised"
    \* ---- ErrorAnalyzer.classify_record
    record,              \* [razonamiento_modelo, raw_response]
    is_fallback,
    is_raw_valid_json,
    has_clasificaciones,
    format_name,         \* the label returned
    classifyPc,          \* "idle", "called", "returned", "raised"
    \* ---- ResultProcessor.process and its files
    processing_mode,     \* PROCESSING_MODE: "complex" or "simple"
    refFile,             \* the clean (reference) file: sequence of cases
    nestedFile,          \* anidado_<dataset>.jsonl
    unnestedFile,        \* desanidado_<dataset>.jsonl
    consistency,         \* what validate_consistency reported last
    processResults,      \* what process() returned last
    procPc,              \* "pending" (batch files not consolidated yet), "done"
    reruns,              \* validation runs made since the initial state
    \* ---- ErrorAnalyzer.run_analysis
    classified_records,  \* label -> records, of the last analysis
    errorsDir,           \* the two files of the Errores directory
    analysisPc           \* "none", "done", "raised": how the last run_analysis ended

validatorVars == <<caseList, batch_size, max_concurrent, max_retries, runBudget, now, backups,
                   runNo, runPc, batchIdx, status, outcome, tasks, semaphore,
                   results_saved>>
loaderVars == <<unified, loadPc, loads, json_decode_errors, general_parse_errors,
                skipped_no_id>>
parseVars == <<raw_response, predicted_details, parsePc>>
classifyVars == <<record, is_fallback, is_raw_valid_json, has_clasificaciones,
                  format_name, classifyPc>>
processVars == <<processing_mode, refFile, nestedFile, unnestedFile, consistency,
                 processResults, procPc, reruns>>
analysisVars == <<classified_records, errorsDir, analysisPc>>
downstreamVars == <<parseVars, classifyVars, processVars, analysisVars>>
vars == <<validatorVars, lotesDir, loaderVars, downstreamVars>>

Min(a, b) == IF a < b THEN a ELSE b

EmptyFn == [x \in {} |-> 0]

(***************************************************************************)
(* File names.  A name is kept in its parts; Render gives its characters.  *)
(*   pat 1: resultados_lote_<batch>_<ts>.jsonl   (save_batch_results)      *)
(*   pat 2: resultados_x_lote_<batch>_<ts>.jsonl                           *)
(*   pat 3: lote_<batch>_<ts>.jsonl                                        *)
(*   pat 4: batch_<batch>_<ts>.jsonl                                       *)
(***************************************************************************)
Minute(t) == t \div 60

\* strftime("%Y%m%d_%H%M"): the minute of the instant
Timestamp(t) == Minute(t)

\* f"resultados_lote_{batch_id}_{timestamp}.jsonl"
BatchFileName(batch_id, t) == [pat |-> 1, batch |-> batch_id, ts |-> Timestamp(t)]

\* lotes_dir.glob("resultados_*.jsonl")
MatchesResultados(name) == name.pat \in {1, 2}

\* code points of the characters that occur in the names
Ord(c) ==
    CASE c = "." -> 46 [] c = "_" -> 95
      [] c = "a" -> 97 [] c = "b" -> 98 [] c = "c" -> 99 [] c = "d" -> 100
      [] c = "e" -> 101 [] c = "h" -> 104 [] c = "j" -> 106 [] c = "l" -> 108
      [] c = "n" -> 110 [] c = "o" -> 111 [] c = "r" -> 114 [] c = "s" -> 115
      [] c = "t" -> 116 [] c = "u" -> 117 [] c = "x" -> 120

Codes(chars) == [k \in 1..Len(chars) |-> Ord(chars[k])]

\* str(n) for n >= 0, as code points ("0" is 48)
RECURSIVE Decimal(_)
Decimal(n) == IF n < 10 THEN <<48 + n>> ELSE Decimal(n \div 10) \o <<48 + (n % 10)>>

\* the timestamp field has a fixed width (zero padded)
FixedWidth(ts) == <<48 + ((ts \div 10) % 10), 48 + (ts % 10)>>

Prefix(pat) ==
    CASE pat = 1 -> Codes(<<"r","e","s","u","l","t","a","d","o","s","_","l","o","t","e","_">>)
      [] pat = 2 -> Codes(<<"r","e","s","u","l","t","a","d","o","s","_","x","_","l","o","t","e","_">>)
      [] pat = 3 -> Codes(<<"l","o","t","e","_">>)
      [] pat = 4 -> Codes(<<"b","a","t","c","h","_">>)

\* the characters of a file name
Render(name) ==
    Prefix(name.pat) \o Decimal(name.batch) \o <<Ord("_")>> \o FixedWidth(name.ts)
        \o Codes(<<".","j","s","o","n","l">>)

\* Python's str order: by code point, a proper prefix first
RECURSIVE LexLess(_, _)
LexLess(a, b) ==
    IF b = <<>> THEN FALSE
    ELSE IF a = <<>> THEN TRUE
    ELSE IF a[1] # b[1] THEN a[1] < b[1]
    ELSE LexLess(Tail(a), Tail(b))

\* an order that tells no two paths apart: sorting leaves the listing as it is
PathLess_none(m, n) == FALSE

\* order of two paths of the same directory
PathLess(m, n) == LexLess(Render(m), Render(n))


(***************************************************************************)
(* Batches of run_validation_async.                                        *)
(***************************************************************************)
\* a loop that leaves the last, shorter chunk out
NumBatches_floor == Len(caseList) \div batch_size

\* num_batches = (total_cases + batch_size - 1) // batch_size
NumBatches == (Len(caseList) + batch_size - 1) \div batch_size

\* batch_data = data_to_process[start_idx:end_idx], as case indices (1-based)
BatchData(batch_idx) ==
    LET start_idx == batch_idx * batch_size
        end_idx == Min(start_idx + batch_size, Len(caseList))
    IN  [k \in 1..(end_idx - start_idx) |-> start_idx + k]

\* the batch id (1-based) a case index belongs to
BatchOf(i) == ((i - 1) \div batch_size) + 1

(***************************************************************************)
(* Result records.  A line of a batch file is                              *)
(*   [kind, key, id, payload]; kind "rec" is a JSON object carrying an id  *)
(* under the key named by key.                                             *)
(* The payload of a validator record keeps the case it was made from (its  *)
(* observacion, expected_codes, ids_delito_originales), the raw response,  *)
(* the "error" flag and the timestamp (stamp: the run that made it).       *)
(***************************************************************************)
\* texts the endpoint can answer with
ResponseTexts == {"json_items", "json_nonobject"}
\* line 112: text returned after the last failed attempt
SentinelMaxRetries == "sentinel_max_retries"
\* line 114: text returned when the loop ends without returning
SentinelApiError == "sentinel_api_error"

NoLine == [kind |-> "none", key |-> "", id |-> "", payload |-> [case |-> 0, raw |-> "", error |-> FALSE, stamp |-> 0]]

\* parse_response: json.loads succeeds on a JSON value that is no object and
\* data.get then raises AttributeError, which only JSONDecodeError is caught for
ParseResponseRaises(text) == text = "json_nonobject"

\* lines 179-188: the record of a case whose call returned a text
ResultRecord(i, text) ==
    [kind |-> "rec", key |-> "id", id |-> caseList[i],
     payload |-> [case |-> i, raw |-> text, error |-> FALSE, stamp |-> runNo]]

\* lines 194-204: the record built by the except branch of process_single_case
ErrorRecord(i) ==
    [kind |-> "rec", key |-> "id", id |-> caseList[i],
     payload |-> [case |-> i, raw |-> "", error |-> TRUE, stamp |-> runNo]]

\* no exception caught
NoError == [type |-> "", words |-> {}]

\* a coroutine of process_single_case: attempt is the loop variable of line 56,
\* error the exception caught last while the coroutine sleeps, wait the
\* wait_time of line 107 in half seconds (0 outside asyncio.sleep)
NewTask == [pc |-> "start", attempt |-> 0, calls |-> 0, fails |-> 0, rec |-> NoLine,
            error |-> NoError, wait |-> 0]

Done(t, r) == [t EXCEPT !.pc = "done", !.rec = r]

\* process_single_case without its try/except: the error leaves the coroutine
ProcessingError_uncaught(t, i) == [t EXCEPT !.pc = "raised"]

\* lines 189-204: an exception inside process_single_case becomes an error record
ProcessingError(t, i) == Done(t, ErrorRecord(i))

\* lines 176-188: generate_prediction_api returned text; parse it, build the record
Finish(t, i, text) ==
    IF ParseResponseRaises(text) THEN ProcessingError(t, i)
    ELSE Done(t, ResultRecord(i, text))

(***************************************************************************)
(* Inter-attempt wait of generate_prediction_api (lines 76-107).           *)
(* An exception is [type, words]: the name of its class and the set of     *)
(* the substrings, among those the code looks for, that occur in           *)
(* str(e).lower().  Times are in half seconds.                             *)
(***************************************************************************)
base_delay == 2        \* line 54
retry_delay == 30      \* config.api.retry_delay

HalfSeconds(seconds) == seconds + seconds

\* exceptions the remote call can raise: the rate limit of the service, a
\* status error whose message names a rate limit, a request that timed out,
\* a connection that failed, a connection that timed out, a server error
\* whose message names none of the words, and the error of line 74 on a
\* response without content
Errors ==
    {[type |-> "RateLimitError", words |-> {}],
     [type |-> "APIStatusError", words |-> {"rate_limit"}],
     [type |-> "APITimeoutError", words |-> {"timed out"}],
     [type |-> "APIConnectionError", words |-> {"connection"}],
     [type |-> "APIConnectionError", words |-> {"connection", "timeout"}],
     [type |-> "InternalServerError", words |-> {}],
     [type |-> "AttributeError", words |-> {}]}

\* lines 89, 94, 99, 104: the branch of the if/elif chain an exception takes
ErrorBranch(e) ==
    IF e.type = "RateLimitError" \/ "rate_limit" \in e.words THEN "rate_limit"
    ELSE IF "timeout" \in e.words \/ "timed out" \in e.words THEN "timeout"
    ELSE IF "connection" \in e.words \/ "network" \in e.words THEN "network"
    ELSE "other"

\* line 85: random.uniform(0, attempt * 0.5), sampled every half second
Jitters(attempt) == 0..attempt

\* line 84: backoff = base_delay ** (attempt + 1)
Backoff(attempt) == base_delay ^ (attempt + 1)

\* a network error waits no longer than any other error
WaitTime_networkNotDoubled(e, attempt, jitter) ==
    IF ErrorBranch(e) = "rate_limit"
    THEN HalfSeconds(retry_delay + (attempt * 15))
    ELSE HalfSeconds(Backoff(attempt)) + jitter

\* lines 84-105: wait_time = backoff + jitter, replaced in the rate-limit and
\* in the network branch
WaitTime(e, attempt, jitter) ==
    CASE ErrorBranch(e) = "rate_limit" -> HalfSeconds(retry_delay + (attempt * 15))
      [] ErrorBranch(e) = "network" -> HalfSeconds(Backoff(attempt) * 2) + jitter
      [] OTHER -> HalfSeconds(Backoff(attempt)) + jitter

\* the retry loop stops one attempt late
IsLastAttempt_late(attempt) == ~(attempt < max_retries)

\* line 81: "if attempt < max_retries - 1" is false
IsLastAttempt(attempt) == ~(attempt < max_retries - 1)

(***************************************************************************)
(* The admission gate, asyncio.Semaphore(max_concurrent).                  *)
(***************************************************************************)
\* a gate that admits everybody
CanAcquire_always(value) == TRUE

\* Semaphore.acquire returns only while the counter is positive
CanAcquire(value) == value > 0

InFlight == {i \in DOMAIN tasks : tasks[i].pc = "inflight"}

(***************************************************************************)
(* gather and save_batch_results.                                          *)
(***************************************************************************)
Pending(ts) == {i \in DOMAIN ts : ts[i].pc \notin {"done", "raised"}}

\* a join that does not wait for the tasks
Joined_nowait(bd) == TRUE

\* line 208: gather returns when every task has finished, or raises as soon
\* as one task raised
Joined(bd) ==
    \/ \A k \in 1..Len(bd) : tasks[bd[k]].pc = "done"
    \/ \E k \in 1..Len(bd) : tasks[bd[k]].pc = "raised"

RECURSIVE KeepSuccesses(_)
KeepSuccesses(s) ==
    IF s = <<>> THEN <<>>
    ELSE IF s[1].payload.error THEN KeepSuccesses(Tail(s))
         ELSE <<s[1]>> \o KeepSuccesses(Tail(s))

\* a gather that drops the failed cases
GatherResults_dropErrors(bd) == KeepSuccesses([k \in 1..Len(bd) |-> tasks[bd[k]].rec])

\* lines 207-209: one result per task, in submission order
GatherResults(bd) == [k \in 1..Len(bd) |-> tasks[bd[k]].rec]

\* lines 216-218: open(filepath, 'w') creates the file or replaces its content
WriteFile(dir, name, lines) == (name :> lines) @@ dir

(***************************************************************************)
(* Backup of old result files (lines 336-348).                             *)
(***************************************************************************)
OldFiles == {n \in DOMAIN lotesDir : MatchesResultados(n)}

\* backup_dir name: strftime('%Y%m%d_%H%M%S'), one-second resolution
BackupDirName(t) == t

\* mkdir(parents=True, exist_ok=True): an existing directory is reused
Mkdir(bk, d) == IF d \in DOMAIN bk THEN bk ELSE (d :> EmptyFn) @@ bk

\* shutil.move of every old file into the backup directory; a file of the
\* same name already there is replaced
MoveToBackup(bk, d, files) ==
    [x \in DOMAIN Mkdir(bk, d) |->
        IF x = d THEN [n \in files |-> lotesDir[n]] @@ Mkdir(bk, d)[d]
        ELSE bk[x]]

LaterInstants == {t \in Instants : t >= now}

(***************************************************************************)
(* Return statements of run_validation_async.                              *)
(***************************************************************************)
Outcomes == {"completed", "no_work", "cancelled", "interrupted", "kb_mismatch",
             "setup_error", "batch_error"}

\* a run without work reported as a failure
ReturnValue_noWorkFalse(o) == o = "completed"

\* line 284 (knowledge-base mismatch): False;  line 392 (except Exception, for
\* an error of the set-up or one that leaves the batch loop): False
\* line 298 (no data): True;  line 333 (declined): False
\* line 381 (all batches done): True;  line 386 (KeyboardInterrupt): False
ReturnValue(o) ==
    CASE o = "completed" -> TRUE
      [] o = "no_work" -> TRUE
      [] o = "cancelled" -> FALSE
      [] o = "interrupted" -> FALSE
      [] o = "kb_mismatch" -> FALSE
      [] o = "setup_error" -> FALSE
      [] o = "batch_error" -> FALSE

Return(o) ==
    /\ runPc' = "returned"
    /\ outcome' = o
    /\ status' = ReturnValue(o)
    /\ tasks' = EmptyFn
    /\ batchIdx' = 0
    /\ semaphore' = 0
    /\ results_saved' = 0


(***************************************************************************)
(* ResultProcessor.find_batch_files and load_batch_files                   *)
(* (5_lotes_processor.py, lines 44-116).                                   *)
(***************************************************************************)
RECURSIVE SelectSeq2(_, _)
\* the elements of a sequence of names that match pattern number p, in order
SelectSeq2(s, p) ==
    IF s = <<>> THEN <<>>
    ELSE IF s[1].pat = p THEN <<s[1]>> \o SelectSeq2(Tail(s), p)
         ELSE SelectSeq2(Tail(s), p)

\* glob.glob(lotes_dir / pattern) over the directory as the filesystem lists it
Glob(listing, p) == SelectSeq2(listing, p)

RECURSIVE FirstPattern(_, _)
\* lines 53-59: the patterns are tried in order; the loop breaks at the first
\* pattern that finds a file
FirstPattern(listing, p) ==
    IF p > 4 THEN <<>>
    ELSE IF Glob(listing, p) # <<>> THEN Glob(listing, p)
         ELSE FirstPattern(listing, p + 1)

\* find_batch_files returning the files in the order the filesystem lists them
FindBatchFiles_unsorted(listing) == FirstPattern(listing, 1)

\* line 69: return sorted(batch_files)
FindBatchFiles(listing) == SortSeq(FirstPattern(listing, 1), PathLess)

\* lines 84-93: the id is read from "id" or "case_id"; case_id is renamed to id
Normalise(line) == [line EXCEPT !.key = "id"]

\* a load that keeps the first record seen for an id
Store_keepFirst(u, line) ==
    IF line.id \in DOMAIN u THEN u ELSE (line.id :> Normalise(line)) @@ u

\* line 101: unified_data[record_id] = record
Store(u, line) == (line.id :> Normalise(line)) @@ u

\* lines 81-108: one line of a batch file
\*   "badjson": json.loads raises JSONDecodeError
\*   "nondict": a JSON number or null, "'id' in record" raises TypeError
\*   "noid":    no id key, or an empty id
LoadLine(acc, line) ==
    CASE line.kind = "badjson" -> [acc EXCEPT !.json_decode_errors = @ + 1]
      [] line.kind = "nondict" -> [acc EXCEPT !.general_parse_errors = @ + 1]
      [] line.kind = "noid" -> [acc EXCEPT !.skipped_no_id = @ + 1]
      [] line.kind = "rec" -> [acc EXCEPT !.unified_data = Store(@, line)]

RECURSIVE LoadFile(_, _)
LoadFile(acc, lines) ==
    IF lines = <<>> THEN acc ELSE LoadFile(LoadLine(acc, Head(lines)), Tail(lines))

RECURSIVE LoadFiles(_, _)
\* lines 77-80: the files in order, the lines of each in order
LoadFiles(acc, files) ==
    IF files = <<>> THEN acc
    ELSE LoadFiles(LoadFile(acc, lotesDir[Head(files)]), Tail(files))

\* the ways the filesystem can list the directory
Listings == {s \in [1..Cardinality(DOMAIN lotesDir) -> DOMAIN lotesDir] :
                \A i, j \in DOMAIN s : i # j => s[i] # s[j]}

(***************************************************************************)
(* Directories of batch files the consolidator is run on.                  *)
(***************************************************************************)
LoadPayload(s) == [case |-> 0, raw |-> "json_items", error |-> FALSE, stamp |-> s]

LoadLineChoices ==
    {[kind |-> "rec", key |-> "id", id |-> "A", payload |-> LoadPayload(1)],
     [kind |-> "rec", key |-> "id", id |-> "A", payload |-> LoadPayload(2)],
     [kind |-> "rec", key |-> "case_id", id |-> "B", payload |-> LoadPayload(1)],
     [kind |-> "noid", key |-> "", id |-> "", payload |-> LoadPayload(1)],
     [kind |-> "badjson", key |-> "", id |-> "", payload |-> LoadPayload(1)],
     [kind |-> "nondict", key |-> "", id |-> "", payload |-> LoadPayload(1)]}

FileContents == UNION {[1..n -> LoadLineChoices] : n \in 0..MaxLines}

FileNames ==
    {[pat |-> 1, batch |-> b, ts |-> t] : b \in BatchNos, t \in 0..1}
        \cup {[pat |-> p, batch |-> 1, ts |-> 0] : p \in 2..4}

Directories ==
    UNION {[S -> FileContents] : S \in {T \in SUBSET FileNames : Cardinality(T) \in FileCounts}}

(***************************************************************************)
(* Raw response texts.  A text is kept as its structure:                   *)
(*   wrap   what the text opens with                                       *)
(*            "clasificaciones"  {"razonamiento": "..", "clasificaciones": [ *)
(*            "items"            {"items": [                               *)
(*            "list"             [                                         *)
(*            "none"             nothing                                   *)
(*   chunks the fragments that follow, in order                            *)
(*            block  {"codigo": "<code>", "justificacion": "a"}            *)
(*            trunc  {"codigo": "<code>", "justificacion": "robo de celu   *)
(*            brace  { "x     (an opening brace that starts no code object) *)
(*            prose  words without braces or quotes                        *)
(*            num    7        (a bare number)                              *)
(*   closed whether the text ends with the closing of its wrap (] or ]})   *)
(* Inside a wrap the fragments are separated by commas.  A trunc fragment  *)
(* runs to the end of the text, so it is the last one and the text is not  *)
(* closed.                                                                 *)
(***************************************************************************)
ItemCodes == {"9", "3"}

\* " [TRUNCADO]", appended at line 210
TruncationMarker == " [TRUNCADO]"

Block(c) == [kind |-> "block", code |-> c, just |-> "a"]
Trunc(c) == [kind |-> "trunc", code |-> c, just |-> "robo de celu"]
Brace == [kind |-> "brace", code |-> "", just |-> ""]
Prose == [kind |-> "prose", code |-> "", just |-> ""]
Num == [kind |-> "num", code |-> "", just |-> ""]

Chunks == {Block(c) : c \in ItemCodes} \cup {Trunc(c) : c \in ItemCodes} \cup {Brace, Prose, Num}

Wraps == {"none", "clasificaciones", "items", "list"}

WellFormed(t) ==
    /\ \A k \in 1..Len(t.chunks) :
        t.chunks[k].kind = "trunc" => (k = Len(t.chunks) /\ ~t.closed)
    /\ t.wrap = "none" => ~t.closed

Texts ==
    {t \in [wrap : Wraps,
            chunks : UNION {[1..n -> Chunks] : n \in 0..MaxChunks},
            closed : BOOLEAN] : WellFormed(t)}

EmptyText == [wrap |-> "none", chunks |-> <<>>, closed |-> FALSE]

\* json.loads(raw_response) returns: the text is one complete JSON value
IsValidJson(t) ==
    IF t.wrap = "none"
    THEN Len(t.chunks) = 1 /\ t.chunks[1].kind \in {"block", "num"}
    ELSE t.closed /\ \A k \in 1..Len(t.chunks) : t.chunks[k].kind \in {"block", "num"}

\* the Python type of the value json.loads returns for a valid text
JsonType(t) ==
    IF t.wrap = "list" THEN "list"
    ELSE IF t.wrap = "none" /\ t.chunks[1].kind = "num" THEN "int"
    ELSE "dict"

\* '"clasificaciones" in parsed_json' for a dict or a list
HasClasificaciones(t) == JsonType(t) = "dict" /\ t.wrap = "clasificaciones"

RECURSIVE CollectBlocks(_, _)
\* every complete code object of the fragments, in order; a later one
\* replaces an earlier one of the same code
CollectBlocks(d, chunks) ==
    IF chunks = <<>> THEN d
    ELSE CollectBlocks(
            IF Head(chunks).kind = "block"
            THEN (Head(chunks).code :> <<Head(chunks).just>>) @@ d
            ELSE d,
            Tail(chunks))

\* a strict parse that never returns: the scan runs on every text
Tier1_noReturn(t) == [next |-> "tier2", details |-> EmptyFn]

\* lines 181-189, "Intento 1".  TypeError is not caught: it is raised by
\* '"clasificaciones" in 7' and by '"codigo" in 7' for an item that is a number
Tier1(t) ==
    IF ~IsValidJson(t) THEN [next |-> "tier2", details |-> EmptyFn]
    ELSE IF JsonType(t) = "int" THEN [next |-> "raised", details |-> EmptyFn]
    ELSE IF ~HasClasificaciones(t) THEN [next |-> "tier2", details |-> EmptyFn]
    ELSE IF \E k \in 1..Len(t.chunks) : t.chunks[k].kind = "num"
         THEN [next |-> "raised", details |-> EmptyFn]
         ELSE [next |-> "returned", details |-> CollectBlocks(EmptyFn, t.chunks)]

\* lines 192-197, "Intento 2": pattern_completo.finditer over the whole text
Tier2(d, t) == CollectBlocks(d, t.chunks)

\* raw_response.rfind('{') as the index of the fragment the last opening
\* brace belongs to; 0 when it belongs to the wrap or there is no brace
LastBrace(t) ==
    LET S == {k \in 1..Len(t.chunks) : t.chunks[k].kind \in {"block", "trunc", "brace"}}
    IN  IF S = {} THEN 0 ELSE CHOOSE k \in S : \A j \in S : j <= k

\* the truncated match without the marker
Tier3_noMarker(d, t) ==
    IF LastBrace(t) = 0 THEN d
    ELSE LET c == t.chunks[LastBrace(t)]
         IN  IF c.kind \in {"block", "trunc"} /\ c.code \notin DOMAIN d
             THEN (c.code :> <<c.just>>) @@ d
             ELSE d

\* lines 200-211, "Intento 3": pattern_truncado searched from the last
\* opening brace; it matches a complete code object as well as a truncated one
Tier3(d, t) ==
    IF LastBrace(t) = 0 THEN d
    ELSE LET c == t.chunks[LastBrace(t)]
         IN  IF c.kind \in {"block", "trunc"} /\ c.code \notin DOMAIN d
             THEN (c.code :> <<c.just, TruncationMarker>>) @@ d
             ELSE d

\* parse_detailed_predictions as a function of the text
ParseDetailedPredictions(t) ==
    IF t = EmptyText THEN [raised |-> FALSE, details |-> EmptyFn]
    ELSE LET r == Tier1(t)
         IN  CASE r.next = "returned" -> [raised |-> FALSE, details |-> r.details]
               [] r.next = "raised" -> [raised |-> TRUE, details |-> EmptyFn]
               [] r.next = "tier2" ->
                    [raised |-> FALSE, details |-> Tier3(Tier2(EmptyFn, t), t)]

(***************************************************************************)
(* ErrorAnalyzer.classify_record (6_Error_results.py, lines 38-64).        *)
(***************************************************************************)
\* values of the "razonamiento_modelo" field; "null" is a JSON null (None)
\* the "razonamiento" member of the text of line 112 of the validator
RazonamientoMaxRetries == "ERROR: maximo de reintentos alcanzado"

Razonamientos ==
    {"sin marca", "respuesta fallback", "FALLBACK usado", "null", RazonamientoMaxRetries}

\* line 42: "fallback" in razonamiento.lower()
ContainsFallback(r) == r \in {"respuesta fallback", "FALLBACK usado"}

FormatoA == "Formato A: Perfecto"
FormatoB == "Formato B: Fallback Recuperable"
FormatoC == "Formato C: Fallback Truncado"
FormatoD == "Formato D: Inconsistente"
FormatoE == "Formato E: Otro"

\* a chain that does not look at the fallback marker for invalid JSON
FormatName_ignoreFallback(f, v, h) ==
    IF ~f /\ v /\ h THEN FormatoA
    ELSE IF f /\ v /\ h THEN FormatoB
    ELSE IF ~v THEN FormatoD
    ELSE IF ~f /\ ~h THEN FormatoD
    ELSE FormatoE

\* lines 55-64: the if/elif chain over the three booleans
FormatName(f, v, h) ==
    IF ~f /\ v /\ h THEN FormatoA
    ELSE IF f /\ v /\ h THEN FormatoB
    ELSE IF f /\ ~v THEN FormatoC
    ELSE IF ~f /\ (~v \/ ~h) THEN FormatoD
    ELSE FormatoE

\* a classifier for which an empty "clasificaciones" list counts as present
ClassifyRecord_emptyListCounts(rec) ==
    LET t == rec.raw_response
        raises ==
            \/ rec.razonamiento_modelo = "null"
            \/ (t # EmptyText /\ IsValidJson(t) /\ JsonType(t) = "int")
        f == ContainsFallback(rec.razonamiento_modelo)
        v == t # EmptyText /\ IsValidJson(t)
        h == v /\ HasClasificaciones(t)
    IN  IF raises
        THEN [raised |-> TRUE, f |-> FALSE, v |-> FALSE, h |-> FALSE, label |-> ""]
        ELSE [raised |-> FALSE, f |-> f, v |-> v, h |-> h, label |-> FormatName(f, v, h)]

\* lines 39-64 as a function of the record.  AttributeError (None.lower())
\* and TypeError ('"clasificaciones" in 7') leave the function.
ClassifyRecord(rec) ==
    LET t == rec.raw_response
        raises ==
            \/ rec.razonamiento_modelo = "null"
            \/ (t # EmptyText /\ IsValidJson(t) /\ JsonType(t) = "int")
        f == ContainsFallback(rec.razonamiento_modelo)
        v == t # EmptyText /\ IsValidJson(t)
        h == v /\ HasClasificaciones(t) /\ t.chunks # <<>>
    IN  IF raises
        THEN [raised |-> TRUE, f |-> FALSE, v |-> FALSE, h |-> FALSE, label |-> ""]
        ELSE [raised |-> FALSE, f |-> f, v |-> v, h |-> h, label |-> FormatName(f, v, h)]

(***************************************************************************)
(* ResultProcessor.process (5_lotes_processor.py, lines 118-337) and       *)
(* ErrorAnalyzer.run_analysis (6_Error_results.py, lines 66-168).          *)
(* A record of these steps is a line as above whose payload also carries    *)
(* the predicted_codes list (as a set) and the razonamiento_modelo field,  *)
(* and whose raw response is a text.                                       *)
(***************************************************************************)
NoFile == [exists |-> FALSE, lines |-> <<>>]
File(lines) == [exists |-> TRUE, lines |-> lines]

NoReport == [missing |-> {}, extra |-> {}]
NoResults == [returned |-> FALSE, ok |-> FALSE, unified_records |-> 0,
              reference_records |-> 0, nested_count |-> 0, unnested_count |-> 0,
              parsing_issues |-> <<>>]

\* line 85: the class of the lines that are no JSON
ErrorDeLectura == "Error de Lectura"

Labels == {FormatoA, FormatoB, FormatoC, FormatoD, FormatoE, ErrorDeLectura}
NoClassification == [l \in Labels |-> <<>>]
EmptyErrorsDir == [truncados |-> NoFile, inconsistentes |-> NoFile]

\* a case of the reference file: its id and, inside messages[2].content, the
\* ids of the original sub-records it stands for
RefCase(id, crime_ids) == [id |-> id, ids_delito_originales |-> crime_ids]

RECURSIVE LoadReferenceData(_, _)
\* lines 118-147: reference_data[record_id] = record, line by line
LoadReferenceData(acc, lines) ==
    IF lines = <<>> THEN acc
    ELSE LoadReferenceData((Head(lines).id :> Head(lines)) @@ acc, Tail(lines))

\* lines 149-172: what validate_consistency reports (it prints, and returns
\* nothing); the id sets are compared only when the two counts differ
ValidateConsistency(unified_ids, reference_ids) ==
    IF Cardinality(unified_ids) # Cardinality(reference_ids)
    THEN [missing |-> reference_ids \ unified_ids, extra |-> unified_ids \ reference_ids]
    ELSE NoReport

RECURSIVE KeyOrderLines(_, _)
KeyOrderLines(ord, lines) ==
    IF lines = <<>> THEN ord
    ELSE KeyOrderLines(
            IF Head(lines).kind = "rec" /\ Head(lines).id \notin {ord[k] : k \in 1..Len(ord)}
            THEN Append(ord, Head(lines).id) ELSE ord,
            Tail(lines))

RECURSIVE KeyOrder(_, _)
\* the order of the keys of unified_data: a dict keeps the order in which its
\* keys were first inserted (lines 77-101)
KeyOrder(ord, files) ==
    IF files = <<>> THEN ord
    ELSE KeyOrder(KeyOrderLines(ord, lotesDir[Head(files)]), Tail(files))

\* lines 219-221: one line per value of unified_data, in dict order
NestedLines(ord, unified_data) == [k \in 1..Len(ord) |-> unified_data[ord[k]]]

\* lines 253-260: the ids a complex-mode case expands to
CrimeIds(ref_record) ==
    IF ref_record.ids_delito_originales = <<>> THEN <<"None">>
    ELSE ref_record.ids_delito_originales

\* lines 264-274 and 279-289: a row of the flattened file
Row(crime_id, unified_record, details) ==
    [id_delito_ia |-> crime_id,
     id_observacion |-> unified_record.id,
     predicted_codes_obs |-> unified_record.payload.predicted_codes,
     predicciones_detalladas_modelo |-> details,
     processing_error |-> unified_record.payload.error]

\* lines 250-290: the rows of one unified record
RowsOf(mode, unified_record, ref_record, details) ==
    IF mode = "complex"
    THEN [k \in 1..Len(CrimeIds(ref_record)) |->
            Row(CrimeIds(ref_record)[k], unified_record, details)]
    ELSE <<Row(unified_record.id, unified_record, details)>>

RECURSIVE CreateUnnested(_, _, _, _, _)
\* lines 229-290: the loop of create_unnested_format over unified_data.  An
\* error raised by parse_detailed_predictions leaves the loop and
\* the function before the file is written.
CreateUnnested(acc, ord, unified_data, reference_data, mode) ==
    IF ord = <<>> \/ acc.raised THEN acc
    ELSE LET obs_id == Head(ord)
             unified_record == unified_data[obs_id]
             parsed == ParseDetailedPredictions(unified_record.payload.raw)
         IN  IF obs_id \notin DOMAIN reference_data
             THEN CreateUnnested(acc, Tail(ord), unified_data, reference_data, mode)
             ELSE IF parsed.raised
             THEN [acc EXCEPT !.raised = TRUE]
             ELSE CreateUnnested(
                    [raised |-> FALSE,
                     rows |-> acc.rows \o RowsOf(mode, unified_record,
                                                 reference_data[obs_id], parsed.details),
                     issues |-> IF DOMAIN parsed.details # unified_record.payload.predicted_codes
                                THEN Append(acc.issues, obs_id) ELSE acc.issues],
                    Tail(ord), unified_data, reference_data, mode)

\* lines 80-84: the entry made for a line that is no JSON
ErrorRecordOf(line_num) == [kind |-> "error_record", linea |-> line_num]

\* lines 87-89: any other exception is counted and printed, nothing is stored
ClassifyFailed(acc) == [acc EXCEPT !.parse_errors = @ + 1]

\* the accumulators of analyze_errors before the first line
NoAnalysis ==
    [classified |-> NoClassification, total_records |-> 0, json_decode_errors |-> 0,
     parse_errors |-> 0, line_num |-> 0]

RECURSIVE ClassifyAll(_, _)
\* lines 74-89: every line of the nested file is read.  A line that is no
\* JSON (kind "badjson") goes to the class "Error de Lectura"; a line that is
\* JSON but no object, or a record whose classification raises, is counted in
\* parse_errors and left out; every other record goes to the class
\* classify_record returns
ClassifyAll(acc, lines) ==
    IF lines = <<>> THEN acc
    ELSE LET rec == Head(lines)
             line_num == acc.line_num + 1
             c == IF rec.kind = "rec"
                  THEN ClassifyRecord([razonamiento_modelo |-> rec.payload.razonamiento_modelo,
                                       raw_response |-> rec.payload.raw])
                  ELSE [raised |-> TRUE, f |-> FALSE, v |-> FALSE, h |-> FALSE, label |-> ""]
             read == [acc EXCEPT !.line_num = line_num]
         IN  ClassifyAll(
                IF rec.kind = "badjson"
                THEN [read EXCEPT !.classified[ErrorDeLectura] = Append(@, ErrorRecordOf(line_num)),
                                  !.json_decode_errors = @ + 1]
                ELSE IF c.raised THEN ClassifyFailed(read)
                ELSE [read EXCEPT !.classified[c.label] = Append(@, rec),
                                  !.total_records = @ + 1],
                Tail(lines))

\* a save that writes nothing
SaveProblematic_nothing(file, casos) == file

\* lines 126-131 and 133-138: a quarantine file is written only for a class
\* that has records
SaveProblematic(file, casos) == IF casos # <<>> THEN File(casos) ELSE file

(***************************************************************************)
(* Initial states.                                                         *)
(***************************************************************************)
\* the case lists, up to the names of the ids: the first case is "A"
CaseLists ==
    {l \in UNION {[1..n -> CaseIds] : n \in 0..MaxCases} : l = <<>> \/ l[1] = "A"}

LoaderInit ==
    /\ unified = EmptyFn
    /\ loadPc = "ready"
    /\ loads = 0
    /\ json_decode_errors = 0
    /\ general_parse_errors = 0
    /\ skipped_no_id = 0

ParseIdle ==
    /\ raw_response = EmptyText
    /\ predicted_details = EmptyFn
    /\ parsePc = "idle"

ClassifyIdle ==
    /\ record = [razonamiento_modelo |-> "", raw_response |-> EmptyText]
    /\ is_fallback = FALSE
    /\ is_raw_valid_json = FALSE
    /\ has_clasificaciones = FALSE
    /\ format_name = ""
    /\ classifyPc = "idle"

\* no consolidation and no analysis take place
PipelineIdle ==
    /\ processing_mode = "complex"
    /\ refFile = <<>>
    /\ nestedFile = NoFile
    /\ unnestedFile = NoFile
    /\ consistency = NoReport
    /\ processResults = NoResults
    /\ procPc = "done"
    /\ reruns = MaxReruns
    /\ classified_records = NoClassification
    /\ errorsDir = EmptyErrorsDir
    /\ analysisPc = "none"

DownstreamIdle == ParseIdle /\ ClassifyIdle /\ PipelineIdle

ValidatorIdle ==
    /\ now = 0
    /\ backups = EmptyFn
    /\ runNo = 0
    /\ runPc = "idle"
    /\ batchIdx = 0
    /\ status = FALSE
    /\ outcome = "none"
    /\ tasks = EmptyFn
    /\ semaphore = 0
    /\ results_saved = 0

Init ==
    /\ caseList \in CaseLists
    /\ batch_size \in BatchSizes
    /\ max_concurrent \in MaxConcurrentValues
    /\ max_retries \in MaxRetriesValues
    /\ runBudget = 1
    /\ lotesDir = EmptyFn
    /\ ValidatorIdle
    /\ LoaderInit
    /\ DownstreamIdle

\* the operator runs the validation again and again over a one-case list
InitRerun ==
    /\ caseList \in [1..1 -> CaseIds]
    /\ batch_size \in BatchSizes
    /\ max_concurrent \in MaxConcurrentValues
    /\ max_retries \in 1..2
    /\ runBudget = MaxRuns
    /\ lotesDir = EmptyFn
    /\ ValidatorIdle
    /\ LoaderInit
    /\ DownstreamIdle

(***************************************************************************)
(* run_validation_async (lines 254-392).                                   *)
(***************************************************************************)
config == <<caseList, batch_size, max_concurrent, max_retries, runBudget>>

\* lines 270-350: set-up, confirmation, backup of old files, validator
\* construction.  setup: "ok", "kb_mismatch" (line 282), "load_error"
\* (load_clean_data raises), "validator_error" (the constructor raises).
StartRun ==
    /\ runPc \in {"idle", "returned"}
    /\ runNo < runBudget
    /\ runNo' = runNo + 1
    /\ \E setup \in {"ok", "kb_mismatch", "load_error", "validator_error"},
          declined \in BOOLEAN :
        IF setup = "kb_mismatch"
        THEN Return("kb_mismatch") /\ UNCHANGED <<now, lotesDir, backups>>
        ELSE IF setup = "load_error"
        THEN Return("setup_error") /\ UNCHANGED <<now, lotesDir, backups>>
        ELSE IF Len(caseList) = 0
        THEN Return("no_work") /\ UNCHANGED <<now, lotesDir, backups>>
        ELSE IF declined
        THEN Return("cancelled") /\ UNCHANGED <<now, lotesDir, backups>>
        ELSE /\ IF OldFiles # {}
                THEN \E t \in LaterInstants :
                        /\ now' = t
                        /\ backups' = MoveToBackup(backups, BackupDirName(t), OldFiles)
                        /\ lotesDir' = [n \in DOMAIN lotesDir \ OldFiles |-> lotesDir[n]]
                ELSE UNCHANGED <<now, lotesDir, backups>>
             /\ IF setup = "validator_error"
                THEN Return("setup_error")
                ELSE /\ runPc' = "loop"
                     /\ batchIdx' = 0
                     /\ semaphore' = max_concurrent
                     /\ results_saved' = 0
                     /\ tasks' = EmptyFn
                     /\ UNCHANGED <<status, outcome>>
    /\ UNCHANGED <<config, loaderVars, downstreamVars>>

\* lines 354-364 and 373-381: the loop head starts the tasks of the next
\* batch, or the run returns True after the last batch
LoopHead ==
    /\ runPc = "loop"
    /\ IF batchIdx < NumBatches
       THEN LET bd == BatchData(batchIdx)
                new == {bd[k] : k \in 1..Len(bd)}
            IN  /\ tasks' = [i \in Pending(tasks) \cup new |->
                                IF i \in new THEN NewTask ELSE tasks[i]]
                /\ runPc' = "gather"
                /\ UNCHANGED <<batchIdx, status, outcome, semaphore, results_saved>>
       ELSE Return("completed")
    /\ UNCHANGED <<config, now, lotesDir, backups, runNo, loaderVars, downstreamVars>>

\* lines 364-368: gather has returned; save_batch_results writes the file
SaveBatch ==
    /\ runPc = "gather"
    /\ Joined(BatchData(batchIdx))
    /\ IF \E i \in DOMAIN tasks : tasks[i].pc = "raised"
       THEN Return("batch_error") /\ UNCHANGED <<now, lotesDir>>
       ELSE \E t \in LaterInstants :
            LET results == GatherResults(BatchData(batchIdx))
            IN  /\ now' = t
                /\ lotesDir' = WriteFile(lotesDir, BatchFileName(batchIdx + 1, t), results)
                /\ results_saved' = results_saved + Len(results)
                /\ batchIdx' = batchIdx + 1
                /\ runPc' = "loop"
                /\ UNCHANGED <<tasks, semaphore, status, outcome>>
    /\ UNCHANGED <<config, backups, runNo, loaderVars, downstreamVars>>

\* an interrupt handler that removes the result files of the run
Interrupt_removesFiles ==
    /\ runPc \in {"loop", "gather"}
    /\ Return("interrupted")
    /\ lotesDir' = EmptyFn
    /\ UNCHANGED <<config, now, backups, runNo, loaderVars, downstreamVars>>

\* an interrupt handler that saves the results of the cases that finished
Interrupt_savesFinished ==
    /\ runPc \in {"loop", "gather"}
    /\ Return("interrupted")
    /\ lotesDir' =
        IF runPc = "gather"
        THEN WriteFile(lotesDir, BatchFileName(batchIdx + 1, now),
                       SelectSeq(GatherResults(BatchData(batchIdx)),
                                 LAMBDA r : r.kind = "rec"))
        ELSE lotesDir
    /\ UNCHANGED <<config, now, backups, runNo, loaderVars, downstreamVars>>

\* lines 383-386: KeyboardInterrupt while the batches are being processed
Interrupt ==
    /\ runPc \in {"loop", "gather"}
    /\ Return("interrupted")
    /\ UNCHANGED <<config, now, lotesDir, backups, runNo, loaderVars, downstreamVars>>

(***************************************************************************)
(* process_single_case / generate_prediction_api, one coroutine per case.  *)
(***************************************************************************)
TaskVarsUnchanged ==
    UNCHANGED <<config, now, lotesDir, backups, runNo, runPc, batchIdx, status,
                outcome, results_saved, loaderVars, downstreamVars>>

\* a loop whose body runs once whatever max_retries is
TaskStart_alwaysAttempts(i) ==
    /\ tasks[i].pc = "start"
    /\ tasks' = [tasks EXCEPT ![i] = [@ EXCEPT !.pc = "acquire"]]
    /\ UNCHANGED semaphore
    /\ TaskVarsUnchanged

\* lines 145-176 and 52-56: the coroutine starts and enters the retry loop;
\* with an empty range the loop body never runs and line 114 returns
TaskStart(i) ==
    /\ tasks[i].pc = "start"
    /\ tasks' = [tasks EXCEPT ![i] =
                    IF max_retries > 0 THEN [@ EXCEPT !.pc = "acquire"]
                    ELSE Finish(@, i, SentinelApiError)]
    /\ UNCHANGED semaphore
    /\ TaskVarsUnchanged

\* line 61-62: "async with self.semaphore", then the remote call is issued
Acquire(i) ==
    /\ tasks[i].pc = "acquire"
    /\ CanAcquire(semaphore)
    /\ semaphore' = semaphore - 1
    /\ tasks' = [tasks EXCEPT ![i] = [@ EXCEPT !.pc = "inflight", !.calls = @ + 1]]
    /\ TaskVarsUnchanged

\* a call that returns without giving its permit back
CallReturns_keepsPermit(i) ==
    /\ tasks[i].pc = "inflight"
    /\ UNCHANGED semaphore
    /\ \E text \in ResponseTexts : tasks' = [tasks EXCEPT ![i] = Finish(@, i, text)]
    /\ TaskVarsUnchanged

\* line 74: the call returned a text; the permit is released on leaving the
\* with block
CallReturns(i) ==
    /\ tasks[i].pc = "inflight"
    /\ semaphore' = semaphore + 1
    /\ \E text \in ResponseTexts : tasks' = [tasks EXCEPT ![i] = Finish(@, i, text)]
    /\ TaskVarsUnchanged

\* a failed call that keeps its permit through the wait
CallFails_keepsPermit(i) ==
    /\ tasks[i].pc = "inflight"
    /\ UNCHANGED semaphore
    /\ \E e \in Errors, jitter \in Jitters(tasks[i].attempt) :
        tasks' = [tasks EXCEPT ![i] =
                    IF IsLastAttempt(@.attempt)
                    THEN Finish([@ EXCEPT !.fails = @ + 1], i, SentinelMaxRetries)
                    ELSE [@ EXCEPT !.pc = "sleeping", !.fails = @ + 1, !.error = e,
                                   !.wait = WaitTime(e, tasks[i].attempt, jitter)]]
    /\ TaskVarsUnchanged

\* lines 76-112: the call raised; the permit is released, then either the
\* coroutine sleeps before the next attempt or returns the terminal sentinel
CallFails(i) ==
    /\ tasks[i].pc = "inflight"
    /\ semaphore' = semaphore + 1
    /\ \E e \in Errors, jitter \in Jitters(tasks[i].attempt) :
        tasks' = [tasks EXCEPT ![i] =
                    IF IsLastAttempt(@.attempt)
                    THEN Finish([@ EXCEPT !.fails = @ + 1], i, SentinelMaxRetries)
                    ELSE [@ EXCEPT !.pc = "sleeping", !.fails = @ + 1, !.error = e,
                                   !.wait = WaitTime(e, tasks[i].attempt, jitter)]]
    /\ TaskVarsUnchanged

\* line 107 and 56: asyncio.sleep is over, the loop goes to the next attempt
Wake(i) ==
    /\ tasks[i].pc = "sleeping"
    /\ tasks' = [tasks EXCEPT ![i] =
                    IF @.attempt + 1 < max_retries
                    THEN [@ EXCEPT !.pc = "acquire", !.attempt = @ + 1,
                                   !.error = NoError, !.wait = 0]
                    ELSE Finish([@ EXCEPT !.error = NoError, !.wait = 0], i,
                                SentinelApiError)]
    /\ UNCHANGED semaphore
    /\ TaskVarsUnchanged

Next ==
    \/ StartRun
    \/ LoopHead
    \/ SaveBatch
    \/ Interrupt
    \/ \E i \in DOMAIN tasks : runPc = "gather" /\ TaskStart(i)
    \/ \E i \in DOMAIN tasks : runPc = "gather" /\ Acquire(i)
    \/ \E i \in DOMAIN tasks : runPc = "gather" /\ CallReturns(i)
    \/ \E i \in DOMAIN tasks : runPc = "gather" /\ CallFails(i)
    \/ \E i \in DOMAIN tasks : runPc = "gather" /\ Wake(i)

Spec == Init /\ [][Next]_vars

SpecRerun == InitRerun /\ [][Next]_vars

(***************************************************************************)
(* Scheduling.  The event loop runs every coroutine that can run: one that *)
(* was created, one whose sleep is over, the run itself after gather or    *)
(* save_batch_results returned.  asyncio.Semaphore wakes its waiters in    *)
(* the order they came, so a waiter gets a permit that is released again   *)
(* and again.  Every remote call returns or raises (the timeout of line    *)
(* 71).  The operator is free to interrupt or not.                         *)
(***************************************************************************)
TaskIndices == 1..MaxLiveCases

Running(i) == runPc = "gather" /\ i \in DOMAIN tasks

Fairness ==
    /\ WF_vars(LoopHead)
    /\ WF_vars(SaveBatch)
    /\ \A i \in TaskIndices :
        /\ WF_vars(Running(i) /\ TaskStart(i))
        /\ SF_vars(Running(i) /\ Acquire(i))
        /\ WF_vars(Running(i) /\ (CallReturns(i) \/ CallFails(i)))
        /\ WF_vars(Running(i) /\ Wake(i))

\* the case ids play no part in the scheduling: lists of equal cases
InitLive ==
    /\ caseList \in {[k \in 1..n |-> "A"] : n \in 1..MaxLiveCases}
    /\ batch_size \in BatchSizes
    /\ max_concurrent \in MaxConcurrentValues
    /\ max_retries \in MaxRetriesValues
    /\ runBudget = 1
    /\ lotesDir = EmptyFn
    /\ ValidatorIdle
    /\ LoaderInit
    /\ DownstreamIdle

SpecLive == InitLive /\ [][Next]_vars /\ Fairness

(***************************************************************************)
(* The consolidator on a directory of batch files.                         *)
(***************************************************************************)
InitLoad ==
    /\ caseList = <<>>
    /\ batch_size = 1
    /\ max_concurrent = 1
    /\ max_retries = 1
    /\ runBudget = 0
    /\ lotesDir \in Directories
    /\ ValidatorIdle
    /\ LoaderInit
    /\ DownstreamIdle

\* the counters of __init__ (lines 32-34)
NoCounts ==
    [unified_data |-> EmptyFn, json_decode_errors |-> 0, general_parse_errors |-> 0,
     skipped_no_id |-> 0]

\* a load that starts its counters at zero
LoadBatchFiles_resetsCounters ==
    /\ loads < MaxLoads
    /\ loads' = loads + 1
    /\ \E listing \in Listings :
        LET batch_files == FindBatchFiles(listing)
            res == LoadFiles(NoCounts, batch_files)
        IN  IF batch_files = <<>>
            THEN /\ loadPc' = "raised"
                 /\ UNCHANGED <<unified, json_decode_errors, general_parse_errors,
                                skipped_no_id>>
            ELSE /\ loadPc' = "loaded"
                 /\ unified' = res.unified_data
                 /\ json_decode_errors' = res.json_decode_errors
                 /\ general_parse_errors' = res.general_parse_errors
                 /\ skipped_no_id' = res.skipped_no_id
    /\ UNCHANGED <<validatorVars, lotesDir, downstreamVars>>

\* load_batch_files (lines 71-116); find_batch_files raises FileNotFoundError
\* when no pattern finds a file (lines 61-67)
LoadBatchFiles ==
    /\ loads < MaxLoads
    /\ loads' = loads + 1
    /\ \E listing \in Listings :
        LET batch_files == FindBatchFiles(listing)
            res == LoadFiles([unified_data |-> EmptyFn,
                              json_decode_errors |-> json_decode_errors,
                              general_parse_errors |-> general_parse_errors,
                              skipped_no_id |-> skipped_no_id], batch_files)
        IN  IF batch_files = <<>>
            THEN /\ loadPc' = "raised"
                 /\ UNCHANGED <<unified, json_decode_errors, general_parse_errors,
                                skipped_no_id>>
            ELSE /\ loadPc' = "loaded"
                 /\ unified' = res.unified_data
                 /\ json_decode_errors' = res.json_decode_errors
                 /\ general_parse_errors' = res.general_parse_errors
                 /\ skipped_no_id' = res.skipped_no_id
    /\ UNCHANGED <<validatorVars, lotesDir, downstreamVars>>

NextLoad == LoadBatchFiles

SpecLoad == InitLoad /\ [][NextLoad]_vars

(***************************************************************************)
(* parse_detailed_predictions on one raw response, tier by tier.           *)
(***************************************************************************)
InitParse ==
    /\ caseList = <<>>
    /\ batch_size = 1
    /\ max_concurrent = 1
    /\ max_retries = 1
    /\ runBudget = 0
    /\ lotesDir = EmptyFn
    /\ ValidatorIdle
    /\ LoaderInit
    /\ raw_response \in Texts
    /\ predicted_details = EmptyFn
    /\ parsePc = "start"
    /\ ClassifyIdle
    /\ PipelineIdle

ParseUnchanged ==
    UNCHANGED <<validatorVars, lotesDir, loaderVars, raw_response, classifyVars,
                processVars, analysisVars>>

\* lines 175-178: an empty text gives an empty dict at once
ParseStart ==
    /\ parsePc = "start"
    /\ predicted_details' = EmptyFn
    /\ parsePc' = IF raw_response = EmptyText THEN "returned" ELSE "tier1"
    /\ ParseUnchanged

\* lines 181-189
StrictParse ==
    /\ parsePc = "tier1"
    /\ parsePc' = Tier1(raw_response).next
    /\ predicted_details' = Tier1(raw_response).details
    /\ ParseUnchanged

\* lines 192-197
ScanBlocks ==
    /\ parsePc = "tier2"
    /\ predicted_details' = Tier2(predicted_details, raw_response)
    /\ parsePc' = "tier3"
    /\ ParseUnchanged

\* lines 200-213
MatchTruncated ==
    /\ parsePc = "tier3"
    /\ predicted_details' = Tier3(predicted_details, raw_response)
    /\ parsePc' = "returned"
    /\ ParseUnchanged

NextParse == ParseStart \/ StrictParse \/ ScanBlocks \/ MatchTruncated

SpecParse == InitParse /\ [][NextParse]_vars

(***************************************************************************)
(* classify_record on one record.                                          *)
(***************************************************************************)
InitClassify ==
    /\ caseList = <<>>
    /\ batch_size = 1
    /\ max_concurrent = 1
    /\ max_retries = 1
    /\ runBudget = 0
    /\ lotesDir = EmptyFn
    /\ ValidatorIdle
    /\ LoaderInit
    /\ ParseIdle
    /\ record \in [razonamiento_modelo : Razonamientos, raw_response : Texts]
    /\ is_fallback = FALSE
    /\ is_raw_valid_json = FALSE
    /\ has_clasificaciones = FALSE
    /\ format_name = ""
    /\ classifyPc = "called"
    /\ PipelineIdle

CallClassifyRecord ==
    /\ classifyPc = "called"
    /\ LET r == ClassifyRecord(record)
       IN  /\ classifyPc' = IF r.raised THEN "raised" ELSE "returned"
           /\ is_fallback' = r.f
           /\ is_raw_valid_json' = r.v
           /\ has_clasificaciones' = r.h
           /\ format_name' = r.label
    /\ UNCHANGED <<validatorVars, lotesDir, loaderVars, parseVars, record,
                   processVars, analysisVars>>

NextClassify == CallClassifyRecord

SpecClassify == InitClassify /\ [][NextClassify]_vars

(***************************************************************************)
(* Consolidation and error analysis of a dataset.                          *)
(***************************************************************************)
TextPerfect == [wrap |-> "clasificaciones", chunks |-> <<Block("9")>>, closed |-> TRUE]
TextTruncated == [wrap |-> "clasificaciones", chunks |-> <<Block("9"), Trunc("3")>>, closed |-> FALSE]
TextNumberItem == [wrap |-> "clasificaciones", chunks |-> <<Num>>, closed |-> TRUE]

PipePayload(text, codes, razonamiento, err, s) ==
    [case |-> 0, raw |-> text, error |-> err, stamp |-> s,
     predicted_codes |-> codes, razonamiento_modelo |-> razonamiento]

\* valid JSON with one item, no fallback marker
PayloadPerfect(s) == PipePayload(TextPerfect, {"9"}, "sin marca", FALSE, s)
\* empty raw text: the record of a processing error
PayloadEmptyRaw(s) == PipePayload(EmptyText, {}, "sin marca", TRUE, s)
\* a response cut off inside its second item, codes recovered by regex
PayloadTruncated(s) == PipePayload(TextTruncated, {"9", "3"}, "respuesta fallback", FALSE, s)
\* {"razonamiento": "..", "clasificaciones": [7]}: parse_response skips the
\* item that is no dict and the record is written with no predicted code
PayloadNumberItem(s) == PipePayload(TextNumberItem, {}, "sin marca", FALSE, s)
\* a predicted_codes list that differs from the codes of the raw response
PayloadMismatch(s) == PipePayload(TextPerfect, {}, "sin marca", FALSE, s)

PipePayloads ==
    {PayloadPerfect(1), PayloadEmptyRaw(1), PayloadTruncated(1), PayloadNumberItem(1),
     PayloadMismatch(1)}

PipeLine(id, pl) == [kind |-> "rec", key |-> "id", id |-> id, payload |-> pl]

PipeLines == {PipeLine(id, pl) : id \in CaseIds, pl \in PipePayloads}

LineCounts == 0..2

PipeDirectories ==
    {EmptyFn} \cup
    {(BatchFileName(1, 0) :> lines) : lines \in UNION {[1..n -> PipeLines] : n \in LineCounts}}

CrimeIdLists == {<<"d1">>, <<"d1", "d2">>}

RefFiles ==
    UNION {[1..n -> {RefCase(id, c) : id \in CaseIds, c \in CrimeIdLists}] : n \in LineCounts}

\* what a new validation run can answer for a case
RerunPayloads == {PayloadPerfect(2), PayloadEmptyRaw(2)}

InitPipeline ==
    /\ caseList = <<>>
    /\ batch_size = 1
    /\ max_concurrent = 1
    /\ max_retries = 1
    /\ runBudget = 0
    /\ lotesDir \in PipeDirectories
    /\ ValidatorIdle
    /\ LoaderInit
    /\ ParseIdle
    /\ ClassifyIdle
    /\ processing_mode \in {"complex", "simple"}
    /\ refFile \in RefFiles
    /\ nestedFile = NoFile
    /\ unnestedFile = NoFile
    /\ consistency = NoReport
    /\ processResults = NoResults
    /\ procPc = "pending"
    /\ reruns = 0
    /\ classified_records = NoClassification
    /\ errorsDir = EmptyErrorsDir
    /\ analysisPc = "none"

\* process() returned None (line 337)
ProcessFailed == [NoResults EXCEPT !.returned = TRUE]

\* ResultProcessor(dataset).process(), lines 302-337.  Every exception is
\* caught at line 332 and None is returned; what was written before stays.
Process ==
    /\ procPc = "pending"
    /\ procPc' = "done"
    /\ loads' = loads + 1
    /\ \E listing \in Listings :
        LET batch_files == FindBatchFiles(listing)
            res == LoadFiles([unified_data |-> EmptyFn, json_decode_errors |-> 0,
                              general_parse_errors |-> 0, skipped_no_id |-> 0],
                             batch_files)
            ord == KeyOrder(<<>>, batch_files)
            reference_data == LoadReferenceData(EmptyFn, refFile)
            un == CreateUnnested([raised |-> FALSE, rows |-> <<>>, issues |-> <<>>],
                                 ord, res.unified_data, reference_data, processing_mode)
        IN  IF batch_files = <<>>
            THEN /\ loadPc' = "raised"
                 /\ processResults' = ProcessFailed
                 /\ UNCHANGED <<unified, json_decode_errors, general_parse_errors,
                                skipped_no_id, consistency, nestedFile, unnestedFile>>
            ELSE /\ loadPc' = "loaded"
                 /\ unified' = res.unified_data
                 /\ json_decode_errors' = res.json_decode_errors
                 /\ general_parse_errors' = res.general_parse_errors
                 /\ skipped_no_id' = res.skipped_no_id
                 /\ consistency' = ValidateConsistency(DOMAIN res.unified_data,
                                                       DOMAIN reference_data)
                 /\ nestedFile' = File(NestedLines(ord, res.unified_data))
                 /\ IF un.raised
                    THEN /\ processResults' = ProcessFailed
                         /\ UNCHANGED unnestedFile
                    ELSE /\ unnestedFile' = File(un.rows)
                         /\ processResults' =
                                [returned |-> TRUE, ok |-> TRUE,
                                 unified_records |-> Cardinality(DOMAIN res.unified_data),
                                 reference_records |-> Cardinality(DOMAIN reference_data),
                                 nested_count |-> Len(ord),
                                 unnested_count |-> Len(un.rows),
                                 parsing_issues |-> un.issues]
    /\ UNCHANGED <<validatorVars, lotesDir, parseVars, classifyVars, processing_mode,
                   refFile, reruns, analysisVars>>

\* ErrorAnalyzer(dataset).run_analysis(), lines 142-168: analyze_errors raises
\* when the nested file is missing or no record could be classified
RunAnalysis ==
    /\ LET a == ClassifyAll(NoAnalysis, nestedFile.lines)
       IN  IF ~nestedFile.exists \/ a.total_records = 0
           THEN /\ analysisPc' = "raised"
                /\ classified_records' = NoClassification
                /\ UNCHANGED errorsDir
           ELSE /\ analysisPc' = "done"
                /\ classified_records' = a.classified
                /\ errorsDir' =
                    [truncados |-> SaveProblematic(errorsDir.truncados, a.classified[FormatoC]),
                     inconsistentes |-> SaveProblematic(errorsDir.inconsistentes,
                                                        a.classified[FormatoD])]
    /\ UNCHANGED <<validatorVars, lotesDir, loaderVars, parseVars, classifyVars, processVars>>

\* the validation is run again over the cases of the reference file, after
\* the results of the run before it were consolidated: the old result files go
\* to a backup directory and one new batch file holds a new record for every
\* case
ValidatorRerun ==
    /\ reruns < MaxReruns
    /\ procPc = "done"
    /\ refFile # <<>>
    /\ reruns' = reruns + 1
    /\ procPc' = "pending"
    /\ now' = 60
    /\ backups' = IF OldFiles # {} THEN MoveToBackup(backups, BackupDirName(60), OldFiles)
                  ELSE backups
    /\ \E outs \in [1..Len(refFile) -> RerunPayloads] :
        lotesDir' = (BatchFileName(1, 60) :>
                        [k \in 1..Len(refFile) |-> PipeLine(refFile[k].id, outs[k])])
    /\ UNCHANGED <<config, runNo, runPc, batchIdx, status, outcome, tasks, semaphore,
                   results_saved, loaderVars, parseVars, classifyVars, processing_mode,
                   refFile, nestedFile, unnestedFile, consistency, processResults,
                   analysisVars>>

NextPipeline == Process \/ RunAnalysis \/ ValidatorRerun

SpecPipeline == InitPipeline /\ [][NextPipeline]_vars

(***************************************************************************)
(* ErrorAnalyzer.run_analysis on a nested file of any content.             *)
(***************************************************************************)
\* {"razonamiento": null, "clasificaciones": [..]}: parse_response returns
\* None as the reasoning and the record is written with a null
\* razonamiento_modelo
PayloadNullRazonamiento(s) == PipePayload(TextPerfect, {"9"}, "null", FALSE, s)

\* the text of line 112, '{"razonamiento": "ERROR: ..", "clasificaciones": []}'
TextSentinel == [wrap |-> "clasificaciones", chunks |-> <<>>, closed |-> TRUE]

\* the record of a case whose retries were exhausted: parse_response finds no
\* code in the text of line 112 and returns its "razonamiento" member
PayloadSentinel(s) == PipePayload(TextSentinel, {}, RazonamientoMaxRetries, FALSE, s)

\* the texts of lines 112 and 114 differ in their "razonamiento" member only
SentinelText(raw) ==
    IF raw \in {SentinelMaxRetries, SentinelApiError} THEN TextSentinel ELSE EmptyText

\* a line that is no JSON, and a line that is JSON but no object
CorruptLine == [kind |-> "badjson", key |-> "", id |-> "", payload |-> PayloadEmptyRaw(0)]
NonObjectLine == [kind |-> "nondict", key |-> "", id |-> "", payload |-> PayloadEmptyRaw(0)]

AnalysisLines ==
    {PipeLine("A", pl) :
        pl \in PipePayloads \cup {PayloadNullRazonamiento(1), PayloadSentinel(1)}}
        \cup {CorruptLine, NonObjectLine}

NestedFiles ==
    {NoFile} \cup {File(lines) : lines \in UNION {[1..n -> AnalysisLines] : n \in LineCounts}}

InitAnalyze ==
    /\ caseList = <<>>
    /\ batch_size = 1
    /\ max_concurrent = 1
    /\ max_retries = 1
    /\ runBudget = 0
    /\ lotesDir = EmptyFn
    /\ ValidatorIdle
    /\ LoaderInit
    /\ ParseIdle
    /\ ClassifyIdle
    /\ processing_mode = "complex"
    /\ refFile = <<>>
    /\ nestedFile \in NestedFiles
    /\ unnestedFile = NoFile
    /\ consistency = NoReport
    /\ processResults = NoResults
    /\ procPc = "done"
    /\ reruns = MaxReruns
    /\ classified_records = NoClassification
    /\ errorsDir = EmptyErrorsDir
    /\ analysisPc = "none"

NextAnalyze == RunAnalysis

SpecAnalyze == InitAnalyze /\ [][NextAnalyze]_vars


(***************************************************************************)
(* Properties.                                                             *)
(***************************************************************************)
Range(seq) == {seq[k] : k \in 1..Len(seq)}

AllLines == UNION {Range(lotesDir[n]) : n \in DOMAIN lotesDir}

\* C1: every batch file holds exactly one record for each case of its batch
\* (made from that case and carrying its id) and no other record, whatever
\* the cases went through.
C1_OneRecordPerCase ==
    \A n \in DOMAIN lotesDir :
        LET lines == lotesDir[n]
            bd == BatchData(n.batch - 1)
        IN  /\ \A k \in 1..Len(bd) :
                Cardinality({j \in 1..Len(lines) : lines[j].payload.case = bd[k]}) = 1
            /\ \A j \in 1..Len(lines) :
                /\ lines[j].kind = "rec"
                /\ lines[j].payload.case \in Range(bd)
                /\ lines[j].id = caseList[lines[j].payload.case]

\* a written batch file of two cases, one with its retries exhausted after a
\* retry, the other failed by a processing error
C1_Witness ==
    \E n \in DOMAIN lotesDir :
        /\ Len(lotesDir[n]) = 2
        /\ max_retries >= 2
        /\ \E j \in 1..2 : lotesDir[n][j].payload.raw = SentinelMaxRetries
        /\ \E j \in 1..2 : lotesDir[n][j].payload.error

\* C2: at every moment at most max_concurrent remote calls are in flight.
C2_InFlightBounded == Cardinality(InFlight) <= max_concurrent

\* the gate is full while another task, already retrying, waits for a permit
C2_Witness ==
    /\ Cardinality(InFlight) = max_concurrent
    /\ \E i \in DOMAIN tasks : tasks[i].pc = "acquire" /\ tasks[i].attempt > 0

FileComplete(b) ==
    \E n \in DOMAIN lotesDir :
        /\ n.pat = 1
        /\ n.batch = b
        /\ Len(lotesDir[n]) = Len(BatchData(b - 1))
        /\ \A k \in 1..Len(lotesDir[n]) : lotesDir[n][k].kind = "rec"

C3_State ==
    /\ \A i \in DOMAIN tasks :
        /\ \A j \in DOMAIN tasks : BatchOf(j) < BatchOf(i) => tasks[j].pc = "done"
        /\ \A b \in 1..(BatchOf(i) - 1) : FileComplete(b)
    /\ runPc \in {"loop", "gather"} => {n.batch : n \in DOMAIN lotesDir} = 1..batchIdx

C3_WrittenOnce ==
    \A n \in DOMAIN lotesDir : n \in DOMAIN lotesDir' /\ lotesDir'[n] = lotesDir[n]

\* C3: a batch is a barrier.  While a task of batch N+1 exists, every task of
\* an earlier batch has finished and the files of batches 1..N are completely
\* written; the files on disk are those of batches 1..batch_idx, and a file,
\* once written, is never written again.
C3_BatchBarrier == [](C3_State) /\ [][C3_WrittenOnce]_vars

\* a task of the second batch is running while the first batch's file is on disk
C3_Witness ==
    /\ runPc = "gather"
    /\ batchIdx = 1
    /\ \E i \in DOMAIN tasks : BatchOf(i) = 2 /\ tasks[i].pc = "inflight"
    /\ FileComplete(1)

\* C4: with max_retries >= 1, a generate_prediction_api call all of whose
\* attempts failed has made exactly max_retries remote attempts and has
\* returned the terminal sentinel text (it did not raise); no call makes more
\* than max_retries attempts.
C4_RetryTermination ==
    max_retries >= 1 =>
        \A i \in DOMAIN tasks :
            /\ tasks[i].calls <= max_retries
            /\ (tasks[i].pc \in {"done", "raised"} /\ tasks[i].fails = tasks[i].calls) =>
                /\ tasks[i].pc = "done"
                /\ tasks[i].calls = max_retries
                /\ tasks[i].rec.payload.raw = SentinelMaxRetries

\* max_retries = 3: three failed attempts, then the terminal sentinel
C4_Witness ==
    /\ max_retries = 3
    /\ \E i \in DOMAIN tasks :
        /\ tasks[i].pc = "done"
        /\ tasks[i].fails = 3
        /\ tasks[i].calls = 3
        /\ tasks[i].rec.payload.raw = SentinelMaxRetries

\* C5: the record persisted for a case whose retries were exhausted carries
\* the placeholder payload and has its failure flag set.
C5_ExhaustedMarkedFailed ==
    \A line \in AllLines :
        line.payload.raw = SentinelMaxRetries => line.payload.error

\* C6: a failure of one case never aborts the batch or the run.  No error
\* leaves a case task; a run returns only as completed, without work,
\* cancelled, interrupted or on a set-up error; and a completed run has
\* written, for every batch, a file with all the cases of the batch.
C6_CaseFailureNeverAborts ==
    /\ \A i \in DOMAIN tasks : tasks[i].pc # "raised"
    /\ runPc = "returned" =>
        /\ outcome \in {"completed", "no_work", "cancelled", "interrupted",
                        "kb_mismatch", "setup_error"}
        /\ outcome = "completed" => \A b \in 1..NumBatches : FileComplete(b)

\* a completed run of two batches whose first batch held a failed case
C6_Witness ==
    /\ runPc = "returned"
    /\ outcome = "completed"
    /\ NumBatches = 2
    /\ \E n \in DOMAIN lotesDir :
        /\ n.batch = 1
        /\ \E line \in Range(lotesDir[n]) :
            line.payload.error \/ line.payload.raw = SentinelMaxRetries
    /\ FileComplete(2)

\* the outcomes the claim tells apart
OutcomeClass(o) ==
    CASE o = "completed" -> "completed"
      [] o = "no_work" -> "no work"
      [] o \in {"cancelled", "interrupted"} -> "cancelled by operator"
      [] OTHER -> "failure"

\* C7 as stated: the returned status tells completed, cancelled by operator,
\* no work and failure apart: the value a run returned is returned for no
\* outcome of another class.
C7_StatusDistinguishes ==
    runPc = "returned" =>
        \A o \in Outcomes :
            OutcomeClass(o) # OutcomeClass(outcome) => ReturnValue(o) # status

\* C7 as amended: the status is a boolean that is True exactly for a
\* completed run and for a run without work, and False for a cancellation by
\* the operator and for a failure.
C7_StatusIsSuccessFlag ==
    runPc = "returned" => (status <=> outcome \in {"completed", "no_work"})

\* a run without work has returned True, the value of a completed run
C7_Witness ==
    /\ runPc = "returned"
    /\ outcome = "no_work"
    /\ status = ReturnValue("completed")

StoredFiles ==
    {<<n, lotesDir[n]>> : n \in DOMAIN lotesDir}
        \cup UNION {{<<n, backups[d][n]>> : n \in DOMAIN backups[d]} : d \in DOMAIN backups}

\* C8: a run moves the old result files into a newly created backup
\* directory, and no result file is ever deleted, overwritten or changed:
\* every stored file is still stored, with the same content, after every
\* step, and a step that moves files creates the directory it moves them to.
C8_BackupNonDestructive ==
    [][/\ \A f \in StoredFiles : f \in StoredFiles'
       /\ \A d \in DOMAIN backups' :
            (d \notin DOMAIN backups \/ backups'[d] # backups[d]) => d \notin DOMAIN backups
      ]_vars

(***************************************************************************)
(* Properties of load_batch_files.                                         *)
(***************************************************************************)
\* the batch files load_batch_files reads: those of the first pattern, in the
\* order of find_batch_files, that matches a file
BatchFilesRead ==
    {n \in DOMAIN lotesDir : \A m \in DOMAIN lotesDir : n.pat <= m.pat}

HasId(lines, id) == \E k \in 1..Len(lines) : lines[k].kind = "rec" /\ lines[k].id = id

\* the last record of a file for an id
LastRecordFor(lines, id) ==
    LET k == CHOOSE k \in 1..Len(lines) :
                /\ lines[k].kind = "rec" /\ lines[k].id = id
                /\ \A j \in (k + 1)..Len(lines) : ~(lines[j].kind = "rec" /\ lines[j].id = id)
    IN  Normalise(lines[k])

Holders(id) == {n \in BatchFilesRead : HasId(lotesDir[n], id)}

SingleRunDirectory ==
    \A m, n \in DOMAIN lotesDir :
        /\ m.pat = 1
        /\ (m # n) => m.batch # n.batch
        /\ m.batch < n.batch => m.ts <= n.ts

\* the minute a file of save_batch_results was written in is the one in its name
WrittenAt(n) == n.ts

\* C10: for every id the unified record is the one from the file written
\* latest in time among the files holding the id.
C10_LatestWrittenWins ==
    (loadPc = "loaded" /\ SingleRunDirectory) =>
        \A id \in CaseIds :
            Holders(id) # {} =>
                \E n \in Holders(id) :
                    /\ \A m \in Holders(id) : WrittenAt(m) <= WrittenAt(n)
                    /\ unified[id] = LastRecordFor(lotesDir[n], id)

\* C11: consolidation is idempotent.  A call of load_batch_files made after
\* another one over the same unchanged files, on the same ResultProcessor,
\* returns the same unified map (same ids, same record for each id), however
\* the filesystem lists the files at each call.
C11_LoadIdempotent ==
    [][(loadPc = "loaded" /\ loadPc' = "loaded") => unified' = unified]_vars

\* a second call has returned; two files hold different records for id A
C11_Witness ==
    /\ loadPc = "loaded"
    /\ loads = 2
    /\ \E m, n \in Holders("A") :
        /\ m # n
        /\ LastRecordFor(lotesDir[m], "A") # LastRecordFor(lotesDir[n], "A")
    /\ "A" \in DOMAIN unified

\* C19: load_batch_files reads every file whose name matches any of the known
\* patterns: every id that a record of any such file carries has an entry in
\* the unified map.
C19_AllPatternsRead ==
    loadPc = "loaded" =>
        \A n \in DOMAIN lotesDir : \A id \in CaseIds :
            HasId(lotesDir[n], id) => id \in DOMAIN unified

(***************************************************************************)
(* Properties of parse_detailed_predictions.                               *)
(***************************************************************************)
HasBlock(t) == \E k \in 1..Len(t.chunks) : t.chunks[k].kind = "block"

\* the text is not valid JSON, holds no complete code object, and its last
\* opening brace starts a truncated code object
TruncatedOnly(t) ==
    /\ ~IsValidJson(t)
    /\ ~HasBlock(t)
    /\ LastBrace(t) # 0
    /\ t.chunks[LastBrace(t)].kind = "trunc"

\* C13: for a text that is not valid JSON, has no complete code object and
\* whose last opening brace starts a truncated object, the parser returns
\* exactly one entry, keyed by the code of that object, whose justification
\* is the partial text followed by the truncation marker; so for
\* {"codigo": "9", "justificacion": "robo de celu the result is one entry
\* for code 9 ending with the marker.
C13_TruncatedTier ==
    (parsePc = "returned" /\ TruncatedOnly(raw_response)) =>
        LET c == raw_response.chunks[LastBrace(raw_response)]
        IN  /\ DOMAIN predicted_details = {c.code}
            /\ predicted_details[c.code] = <<c.just, TruncationMarker>>

\* the text of the claim has been parsed
C13_Witness ==
    /\ parsePc = "returned"
    /\ raw_response = [wrap |-> "none", chunks |-> <<Trunc("9")>>, closed |-> FALSE]
    /\ DOMAIN predicted_details = {"9"}
    /\ predicted_details["9"] = <<"robo de celu", TruncationMarker>>

\* tier 1 succeeded: the text is valid JSON with a "clasificaciones" member
StrictParseSucceeds(t) == IsValidJson(t) /\ JsonType(t) # "int" /\ HasClasificaciones(t)

IsTruncatedEntry(j) == j[Len(j)] = TruncationMarker

\* C18 as stated: each tier is attempted only if the previous one failed.
\* The scan for complete objects runs only when the strict parse did not
\* succeed, and the truncated match is attempted, and adds an entry, only
\* when the scan found no complete object.
C18_TiersExclusive ==
    /\ parsePc \in {"tier2", "tier3"} => ~StrictParseSucceeds(raw_response)
    /\ parsePc = "tier3" => predicted_details = EmptyFn
    /\ parsePc = "returned" =>
        ((\E c \in DOMAIN predicted_details : IsTruncatedEntry(predicted_details[c]))
            => ~HasBlock(raw_response))

C18_ScanThenTail ==
    /\ parsePc = "tier2" => parsePc' = "tier3"
    /\ parsePc = "tier3" =>
        /\ \A c \in DOMAIN predicted_details :
            c \in DOMAIN predicted_details' /\ predicted_details'[c] = predicted_details[c]
        /\ \A c \in DOMAIN predicted_details' \ DOMAIN predicted_details :
            /\ LastBrace(raw_response) # 0
            /\ raw_response.chunks[LastBrace(raw_response)].code = c
            /\ IsTruncatedEntry(predicted_details'[c])
        /\ (LastBrace(raw_response) # 0
            /\ raw_response.chunks[LastBrace(raw_response)].kind = "trunc")
                => raw_response.chunks[LastBrace(raw_response)].code \in DOMAIN predicted_details'

\* C18 as amended: the scan for complete objects runs only when the strict
\* parse did not succeed (the text is not valid JSON with a "clasificaciones"
\* member); the truncated match is always attempted after the scan, whatever
\* the scan found; it keeps every entry of the scan and adds one entry, for
\* the object at the last opening brace, when the scan has none for its code.
C18_TiersCumulative ==
    /\ [](parsePc \in {"tier2", "tier3"} => ~StrictParseSucceeds(raw_response))
    /\ [][C18_ScanThenTail]_vars

\* a complete object for code 9 and a truncated one for code 3 are both in
\* the result
C18_Witness ==
    /\ parsePc = "returned"
    /\ HasBlock(raw_response)
    /\ DOMAIN predicted_details = {"9", "3"}
    /\ predicted_details["9"] = <<"a">>
    /\ IsTruncatedEntry(predicted_details["3"])

(***************************************************************************)
(* Properties of classify_record.                                          *)
(***************************************************************************)
\* C12: classify_record gives a record exactly one label, as a function of
\* is_fallback, is_valid_json and has_items: (no, yes, yes) Perfect;
\* (yes, yes, yes) FallbackRecoverable; (yes, no, any) FallbackTruncated;
\* (no, and not valid JSON or no items) Inconsistent; every remaining
\* combination Other.
C12_TruthTable ==
    classifyPc = "returned" =>
        /\ format_name \in {FormatoA, FormatoB, FormatoC, FormatoD, FormatoE}
        /\ (~is_fallback /\ is_raw_valid_json /\ has_clasificaciones) <=> format_name = FormatoA
        /\ (is_fallback /\ is_raw_valid_json /\ has_clasificaciones) <=> format_name = FormatoB
        /\ (is_fallback /\ ~is_raw_valid_json) <=> format_name = FormatoC
        /\ (~is_fallback /\ (~is_raw_valid_json \/ ~has_clasificaciones)) <=> format_name = FormatoD
        /\ (is_fallback /\ is_raw_valid_json /\ ~has_clasificaciones) <=> format_name = FormatoE

\* a record with the fallback marker in capitals and a truncated raw response
\* has been labelled FallbackTruncated
C12_Witness ==
    /\ classifyPc = "returned"
    /\ record.razonamiento_modelo = "FALLBACK usado"
    /\ ~IsValidJson(record.raw_response)
    /\ HasBlock(record.raw_response)
    /\ format_name = FormatoC

(***************************************************************************)
(* Properties of process() and run_analysis().                             *)
(***************************************************************************)
RefIds == {refFile[k].id : k \in 1..Len(refFile)}

RecordA == PipeLine("A", PayloadPerfect(1))
RecordB == PipeLine("B", PayloadEmptyRaw(1))

\* the reference file holds the two cases A and B, the one batch file holds a
\* perfect result for A and a result with empty raw text for B, and no other
\* validation run was made
ScenarioAB ==
    /\ Len(refFile) = 2
    /\ refFile[1].id = "A"
    /\ refFile[2].id = "B"
    /\ lotesDir = (BatchFileName(1, 0) :> <<RecordA, RecordB>>)
    /\ reruns = 0

\* C14: end to end, with reference cases A and B and one batch file holding a
\* result for A (valid JSON, one item, no fallback marker) and one for B
\* (empty raw text): consolidation yields exactly 2 unified records, A is
\* labelled Perfect and B Inconsistent, and the Inconsistent quarantine file
\* holds exactly B.
C14_EndToEnd ==
    /\ (ScenarioAB /\ procPc = "done") =>
        /\ processResults.ok
        /\ processResults.unified_records = 2
        /\ unified = ("A" :> RecordA) @@ ("B" :> RecordB)
        /\ nestedFile = File(<<RecordA, RecordB>>)
    /\ (ScenarioAB /\ analysisPc = "done") =>
        /\ classified_records = [NoClassification EXCEPT ![FormatoA] = <<RecordA>>,
                                                         ![FormatoD] = <<RecordB>>]
        /\ errorsDir.inconsistentes = File(<<RecordB>>)
        /\ errorsDir.truncados = NoFile

\* the scenario has been consolidated and analysed
C14_Witness ==
    /\ ScenarioAB
    /\ procPc = "done"
    /\ analysisPc = "done"
    /\ classified_records[FormatoD] = <<RecordB>>
    /\ errorsDir.inconsistentes.exists

\* C15: after each run_analysis that completes, the Inconsistent quarantine
\* file holds exactly the records that analysis labelled Inconsistent and the
\* FallbackTruncated quarantine file exactly those it labelled
\* FallbackTruncated, also when an earlier analysis wrote the files and this
\* one finds no record of a class.
C15_QuarantineExact ==
    analysisPc = "done" =>
        /\ errorsDir.inconsistentes.lines = classified_records[FormatoD]
        /\ errorsDir.truncados.lines = classified_records[FormatoC]

RECURSIVE RowsFor(_, _)
\* the flattened rows of an observation, in file order
RowsFor(rows, id) ==
    IF rows = <<>> THEN <<>>
    ELSE IF Head(rows).id_observacion = id THEN <<Head(rows)>> \o RowsFor(Tail(rows), id)
         ELSE RowsFor(Tail(rows), id)

\* the reference entry of an id: the last case of the file with that id
RefEntry(id) ==
    refFile[CHOOSE k \in 1..Len(refFile) :
                /\ refFile[k].id = id
                /\ \A j \in (k + 1)..Len(refFile) : refFile[j].id # id]

IsGrouped(id) == id \in RefIds /\ Len(RefEntry(id).ids_delito_originales) > 1

\* the reference file was written in the processing mode that is in force:
\* the simple mode groups nothing
ModeMatchesReference ==
    processing_mode = "simple" =>
        \A k \in 1..Len(refFile) : Len(refFile[k].ids_delito_originales) = 1

\* C16: in a consolidation that returns its statistics, every unified record
\* gives one flattened row per sub-record id of its reference entry when the
\* case is grouped (in the order of the reference, all with the same payload)
\* and exactly one row otherwise; so every unified record has at least one row.
C16_RowsPerSubRecord ==
    (procPc = "done" /\ processResults.ok /\ ModeMatchesReference) =>
        \A id \in DOMAIN unified :
            LET rows == RowsFor(unnestedFile.lines, id)
            IN  /\ Len(rows) >= 1
                /\ IF IsGrouped(id)
                   THEN /\ Len(rows) = Len(RefEntry(id).ids_delito_originales)
                        /\ \A k \in 1..Len(rows) :
                            /\ rows[k].id_delito_ia = RefEntry(id).ids_delito_originales[k]
                            /\ rows[k].predicciones_detalladas_modelo =
                                    rows[1].predicciones_detalladas_modelo
                            /\ rows[k].predicted_codes_obs = rows[1].predicted_codes_obs
                   ELSE Len(rows) = 1

\* C17: validate_consistency reports as missing exactly the reference ids
\* without a unified record and as extra exactly the unified ids without a
\* reference case, and consolidation goes on to write the nested file.
C17_ReportsDifferences ==
    (procPc = "done" /\ loadPc = "loaded") =>
        /\ consistency.missing = RefIds \ DOMAIN unified
        /\ consistency.extra = DOMAIN unified \ RefIds
        /\ nestedFile.exists

\* the ids whose parsed codes differ from their predicted_codes list
InconsistentCodes ==
    {id \in DOMAIN unified \cap RefIds :
        LET parsed == ParseDetailedPredictions(unified[id].payload.raw)
        IN  parsed.raised \/ DOMAIN parsed.details # unified[id].payload.predicted_codes}

\* C20: no record aborts consolidation.  Whatever the raw responses of the
\* records of the batch files are, process() writes the nested and the
\* flattened file for all records and returns the statistics; a difference
\* between parsed codes and predicted_codes only gives a parsing-issue entry.
C20_NoRecordAborts ==
    (procPc = "done" /\ DOMAIN lotesDir # {}) =>
        /\ processResults.ok
        /\ nestedFile.exists
        /\ unnestedFile.exists
        /\ Len(nestedFile.lines) = Cardinality(DOMAIN unified)
        /\ {processResults.parsing_issues[k] : k \in 1..Len(processResults.parsing_issues)}
                = InconsistentCodes

(***************************************************************************)
(* Properties of the retry loop and of the batches.                        *)
(***************************************************************************)
\* the class of an exception: a rate-limit error by the name of its class or
\* by its message, else a timeout by its message, else a network error by its
\* message, else unclassified
IsRateLimit(e) == e.type = "RateLimitError" \/ "rate_limit" \in e.words
IsTimeout(e) == ~IsRateLimit(e) /\ (e.words \cap {"timeout", "timed out"} # {})
IsNetwork(e) == ~IsRateLimit(e) /\ ~IsTimeout(e) /\ (e.words \cap {"connection", "network"} # {})

Sleeping == {i \in DOMAIN tasks : tasks[i].pc = "sleeping"}

\* C21: after a failed attempt with index i that is not the last one, the
\* wait before the next attempt is retry_delay + 15*i seconds for a
\* rate-limit error, 2*2^(i+1) + jitter for a network error and
\* 2^(i+1) + jitter for a timeout or an unclassified error, with
\* 0 <= jitter <= 0.5*i seconds (times in half seconds).
C21_WaitTimes ==
    \A t \in Sleeping :
        LET i == tasks[t].attempt
            e == tasks[t].error
            w == tasks[t].wait
        IN  /\ i < max_retries - 1
            /\ IsRateLimit(e) => w = 2 * (retry_delay + 15 * i)
            /\ IsNetwork(e) => \E j \in 0..i : w = 2 * (2 * 2 ^ (i + 1)) + j
            /\ (~IsRateLimit(e) /\ ~IsNetwork(e)) => \E j \in 0..i : w = 2 * 2 ^ (i + 1) + j

\* the second attempt failed on a connection error and the task waits
\* 8.5 seconds: twice 2^2 seconds and half a second of jitter
C21_Witness ==
    \E t \in Sleeping :
        /\ tasks[t].attempt = 1
        /\ tasks[t].error = [type |-> "APIConnectionError", words |-> {"connection"}]
        /\ tasks[t].wait = 17

\* the file save_batch_results wrote for a batch id
FileOf(b) == CHOOSE n \in DOMAIN lotesDir : n.pat = 1 /\ n.batch = b

\* the case indices of the records of batches 1..b, files taken in id order
RECURSIVE ConcatBatches(_)
ConcatBatches(b) ==
    IF b = 0 THEN <<>>
    ELSE ConcatBatches(b - 1) \o [k \in 1..Len(lotesDir[FileOf(b)]) |->
                                    lotesDir[FileOf(b)][k].payload.case]

\* C22: run_validation_async partitions the case list into
\* ceil(total/batch_size) contiguous chunks in list order, each of exactly
\* batch_size cases except possibly a shorter last one.  The tasks of the
\* batch in progress are the cases of its chunk; after a completed run the
\* batch ids are 1..num_batches, every file but the last holds batch_size
\* records, the last one at most batch_size, and the files concatenated in id
\* order give back the case list, every case exactly once.
C22_Partition ==
    /\ runPc = "gather" =>
        /\ batchIdx < NumBatches
        /\ DOMAIN tasks = (batchIdx * batch_size + 1)..
                              Min((batchIdx + 1) * batch_size, Len(caseList))
    /\ (runPc = "returned" /\ outcome = "completed") =>
        LET n == Len(caseList)
            nb == Cardinality(DOMAIN lotesDir)
        IN  /\ nb * batch_size >= n
            /\ (nb - 1) * batch_size < n
            /\ {f.batch : f \in DOMAIN lotesDir} = 1..nb
            /\ \A f \in DOMAIN lotesDir :
                /\ f.batch < nb => Len(lotesDir[f]) = batch_size
                /\ f.batch = nb => Len(lotesDir[f]) \in 1..batch_size
            /\ ConcatBatches(nb) = [k \in 1..n |-> k]
            /\ \A k \in 1..n :
                \E line \in AllLines : line.payload.case = k /\ line.id = caseList[k]

\* a completed run over three cases in chunks of two: a full first batch and
\* a shorter last one
C22_Witness ==
    /\ runPc = "returned"
    /\ outcome = "completed"
    /\ Len(caseList) = 3
    /\ batch_size = 2
    /\ Cardinality(DOMAIN lotesDir) = 2
    /\ Len(lotesDir[FileOf(1)]) = 2
    /\ Len(lotesDir[FileOf(2)]) = 1

\* the ids load_batch_files returns entries for, given a listing of the directory
LoadedIds(listing) ==
    DOMAIN LoadFiles([unified_data |-> EmptyFn, json_decode_errors |-> 0,
                      general_parse_errors |-> 0, skipped_no_id |-> 0],
                     FindBatchFiles(listing)).unified_data

RECURSIVE SomeListing(_)
\* one of the orders in which the filesystem can list a set of files
SomeListing(files) ==
    IF files = {} THEN <<>>
    ELSE LET n == CHOOSE x \in files : TRUE
         IN  <<n>> \o SomeListing(files \ {n})

\* the step in which a run in progress is interrupted
InterruptStep ==
    /\ runPc \in {"loop", "gather"}
    /\ runPc' = "returned"
    /\ outcome' = "interrupted"

C23_FilesKept ==
    InterruptStep =>
        /\ lotesDir' = lotesDir
        /\ {n.batch : n \in DOMAIN lotesDir} = 1..batchIdx
        /\ \A b \in 1..batchIdx : FileComplete(b)

C23_FilesUsable ==
    (runPc = "returned" /\ outcome = "interrupted") =>
        /\ \A n \in DOMAIN lotesDir :
            LET bd == BatchData(n.batch - 1)
            IN  /\ Len(lotesDir[n]) = Len(bd)
                /\ \A k \in 1..Len(bd) :
                    \E j \in 1..Len(lotesDir[n]) :
                        /\ lotesDir[n][j].payload.case = bd[k]
                        /\ lotesDir[n][j].id = caseList[bd[k]]
        /\ {line.id : line \in AllLines} \subseteq LoadedIds(SomeListing(DOMAIN lotesDir))

\* C23: when the operator interrupts a run while batch N is in progress, the
\* files already written for batches 1..N-1 stay in place with unchanged
\* content, each still holds one record per case of its batch, and a
\* consolidation made afterwards finds the ids of all their records.
C23_InterruptKeepsBatches == [][C23_FilesKept]_vars /\ [](C23_FilesUsable)

\* a run of two batches was interrupted during the second one: the file of
\* the first batch is on disk
C23_Witness ==
    /\ runPc = "returned"
    /\ outcome = "interrupted"
    /\ NumBatches = 2
    /\ DOMAIN lotesDir # {}
    /\ FileComplete(1)

(***************************************************************************)
(* Properties of analyze_errors.                                           *)
(***************************************************************************)
RECURSIVE SumLen(_, _)
\* the number of entries of a classification over a set of labels
SumLen(classified, labels) ==
    IF labels = {} THEN 0
    ELSE LET l == CHOOSE x \in labels : TRUE
         IN  Len(classified[l]) + SumLen(classified, labels \ {l})

\* C24: analyze_errors accounts for every line of the file under exactly one
\* class: a line that is no JSON under "Error de Lectura", every other line
\* under one of the five labels, so that the numbers of entries of the
\* classes add up to the number of lines read.
C24_EveryLineLabelled ==
    analysisPc = "done" =>
        /\ SumLen(classified_records, Labels) = Len(nestedFile.lines)
        /\ \A k \in 1..Len(nestedFile.lines) :
            LET line == nestedFile.lines[k]
            IN  IF line.kind = "badjson"
                THEN ErrorRecordOf(k) \in Range(classified_records[ErrorDeLectura])
                ELSE \E l \in Labels \ {ErrorDeLectura} :
                        line \in Range(classified_records[l])

(***************************************************************************)
(* Liveness of a run and the admission gate.                               *)
(***************************************************************************)
Interrupted == runPc = "returned" /\ outcome = "interrupted"

\* the run returned as completed with the file of every batch written
Completed ==
    /\ runPc = "returned"
    /\ outcome = "completed"
    /\ \A b \in 1..NumBatches : FileComplete(b)

C25_AttemptsBounded ==
    \A i \in DOMAIN tasks : tasks[i].calls <= max_retries

C25_TaskFinishes ==
    \A i \in TaskIndices :
        (Running(i) /\ tasks[i].pc # "done") ~> (Interrupted \/ (Running(i) /\ tasks[i].pc = "done"))

C25_GateAdmits ==
    \A i \in TaskIndices :
        (Running(i) /\ tasks[i].pc = "acquire") ~> (Interrupted \/ (Running(i) /\ tasks[i].pc = "inflight"))

C25_BatchPersisted ==
    \A b \in 1..MaxLiveCases :
        (runPc = "gather" /\ batchIdx = b - 1) ~> (Interrupted \/ FileComplete(b))

C25_RunReturns == (runPc \in {"loop", "gather"}) ~> (Interrupted \/ Completed)

\* C25: when every remote call returns or fails and the operator does not
\* interrupt, then for any max_concurrent >= 1 every case task finishes after
\* at most max_retries attempts, every task waiting at the admission gate is
\* admitted, every batch is completed and persisted, and the run returns.
C25_RunTerminates ==
    /\ [](C25_AttemptsBounded)
    /\ C25_TaskFinishes
    /\ C25_GateAdmits
    /\ C25_BatchPersisted
    /\ C25_RunReturns

\* a completed run of a batch of two cases with one permit, in which a task
\* made three attempts
C25_Witness ==
    /\ Completed
    /\ Len(caseList) = 2
    /\ batch_size = 2
    /\ max_concurrent = 1
    /\ \E line \in AllLines : line.payload.raw = SentinelMaxRetries
    /\ max_retries = 3

\* the permits of the gate that are taken
PermitsTaken == max_concurrent - semaphore

\* C26: a case task holds a permit of the admission gate only while its
\* remote call is in flight.  The permits taken are those of the calls in
\* flight, so a task sleeping between two attempts holds none, and while
\* tasks sleep and fewer than max_concurrent calls are in flight the gate
\* admits a task that wants to issue its call.
C26_PermitOnlyInFlight ==
    runPc \in {"loop", "gather"} =>
        /\ PermitsTaken = Cardinality(InFlight)
        /\ (Sleeping # {} /\ Cardinality(InFlight) < max_concurrent) => CanAcquire(semaphore)

\* one permit: a task sleeps after a failed attempt while the call of
\* another task, issued after that failure, is in flight
C26_Witness ==
    /\ runPc = "gather"
    /\ max_concurrent = 1
    /\ \E i, j \in DOMAIN tasks :
        /\ tasks[i].pc = "sleeping"
        /\ tasks[j].pc = "inflight"

\* the records of the nested file made for a case whose retries were exhausted
ExhaustedRecords ==
    {line \in Range(nestedFile.lines) :
        line.kind = "rec" /\ line.payload = PayloadSentinel(1)}

\* C27: a case whose retries were exhausted is persisted with the sentinel
\* payload: valid JSON, an empty "clasificaciones" list, a reasoning text
\* without the fallback marker.  The classifier labels every such record
\* "Formato D: Inconsistente", never "Formato A: Perfecto", and the analysis
\* writes it to the quarantine file of the inconsistent records.
C27_SentinelInconsistent ==
    /\ IsValidJson(TextSentinel)
    /\ ~ContainsFallback(RazonamientoMaxRetries)
    /\ analysisPc = "done" =>
        \A line \in ExhaustedRecords :
            /\ line \in Range(classified_records[FormatoD])
            /\ \A l \in Labels \ {FormatoD} : line \notin Range(classified_records[l])
            /\ errorsDir.inconsistentes.exists
            /\ line \in Range(errorsDir.inconsistentes.lines)

\* an analysis of a file holding a perfect record and the record of an
\* exhausted case
C27_Witness ==
    /\ analysisPc = "done"
    /\ ExhaustedRecords # {}
    /\ classified_records[FormatoA] # <<>>
    /\ Len(errorsDir.inconsistentes.lines) = 1

\* the tasks of the batch in progress that have finished
Finished == {i \in DOMAIN tasks : tasks[i].pc = "done"}

\* a step that creates a batch file
C28_FileOnlyAfterJoin ==
    \A n \in DOMAIN lotesDir' \ DOMAIN lotesDir :
        /\ runPc = "gather"
        /\ n.batch = batchIdx + 1
        /\ \A k \in 1..Len(BatchData(batchIdx)) : BatchData(batchIdx)[k] \in Finished
        /\ Len(lotesDir'[n]) = Len(BatchData(batchIdx))

\* a step that ends the run while a batch is in progress
C28_AbortPersistsNothing ==
    (runPc = "gather" /\ runPc' = "returned") =>
        /\ outcome' \in {"interrupted", "batch_error"}
        /\ \A n \in DOMAIN lotesDir' : n.batch # batchIdx + 1
        /\ \A i \in Finished : \A n \in DOMAIN lotesDir' :
            tasks[i].rec \notin Range(lotesDir'[n])

\* C28: a batch file for batch N exists only if all case tasks of batch N
\* finished.  A file is created only by a step taken when every task of the
\* batch in progress is done, and it holds all their records; when the run is
\* interrupted or fails while batch N is in progress, no file is written for
\* batch N and the results of its finished cases are not persisted.
C28_AllOrNothing == [][C28_FileOnlyAfterJoin /\ C28_AbortPersistsNothing]_vars

\* the first batch is in progress with one case finished and one still
\* waiting before its next attempt; nothing of the batch is on disk
C28_Witness ==
    /\ runPc = "gather"
    /\ batchIdx = 0
    /\ Finished # {}
    /\ Sleeping # {}
    /\ lotesDir = EmptyFn

\* C29: with max_retries = 0 generate_prediction_api makes no remote call,
\* takes no permit and performs no wait; it returns at once the generic error
\* sentinel, valid JSON with an empty "clasificaciones" list, and does not
\* raise: the case gets a normal record carrying that text.
C29_ZeroRetries ==
    max_retries = 0 =>
        /\ runPc \in {"loop", "gather"} => semaphore = max_concurrent
        /\ \A i \in DOMAIN tasks :
            /\ tasks[i].pc \in {"start", "done"}
            /\ tasks[i].calls = 0
            /\ tasks[i].wait = 0
            /\ tasks[i].pc = "done" =>
                /\ tasks[i].rec.payload.raw = SentinelApiError
                /\ ~tasks[i].rec.payload.error
                /\ IsValidJson(SentinelText(tasks[i].rec.payload.raw))
                /\ HasClasificaciones(SentinelText(tasks[i].rec.payload.raw))
                /\ SentinelText(tasks[i].rec.payload.raw).chunks = <<>>

\* max_retries = 0: the two cases of a batch have both returned the sentinel
C29_Witness ==
    /\ max_retries = 0
    /\ runPc = "gather"
    /\ Cardinality(DOMAIN tasks) = 2
    /\ \A i \in DOMAIN tasks :
        tasks[i].pc = "done" /\ tasks[i].rec.payload.raw = SentinelApiError

(***************************************************************************)
(* The error counters of a ResultProcessor.                                *)
(***************************************************************************)
LinesOfKind(lines, kind) == Cardinality({k \in 1..Len(lines) : lines[k].kind = kind})

RECURSIVE CountKind(_, _)
\* the lines of a kind in a set of files of the directory
CountKind(files, kind) ==
    IF files = {} THEN 0
    ELSE LET n == CHOOSE x \in files : TRUE
         IN  LinesOfKind(lotesDir[n], kind) + CountKind(files \ {n}, kind)

\* C30: the error counters of a ResultProcessor are never reset.  After k
\* calls of load_batch_files over unchanged files they are k times the counts
\* of one load (the lines that are no JSON, the lines that fail otherwise,
\* the records without id, of the files read), while the map returned is that
\* of one load at every call.
C30_CountersAccumulate ==
    /\ json_decode_errors = loads * CountKind(BatchFilesRead, "badjson")
    /\ general_parse_errors = loads * CountKind(BatchFilesRead, "nondict")
    /\ skipped_no_id = loads * CountKind(BatchFilesRead, "noid")
    /\ loadPc = "loaded" =>
        \A listing \in Listings :
            unified = LoadFiles(NoCounts, FindBatchFiles(listing)).unified_data

\* two calls over a file with a line that is no JSON and a file with a
\* record: the counter stands at two, the map holds the record
C30_Witness ==
    /\ loads = 2
    /\ loadPc = "loaded"
    /\ CountKind(BatchFilesRead, "badjson") = 1
    /\ json_decode_errors = 2
    /\ DOMAIN unified # {}

====
